---- MODULE Spec2Model ----
(***************************************************************************)
(* Dispatch and lifecycle engine of the drone delivery service.            *)
(*                                                                         *)
(* The store (SQLite tables orders, drones) is the only shared state.      *)
(* Every gRPC handler is a sequence of store calls; each store call is     *)
(* one atomic step, and the steps of concurrent handlers interleave.       *)
(* A request slot holds the position of one in-flight handler and the      *)
(* values it has read so far (the handler's local variables).              *)
(***************************************************************************)
EXTENDS Integers, Sequences, FiniteSets, TLC

---------------------------------------------------------------------------
(* Bounds of the model. *)

\* number of orders that SetOrder may create
MaxOrders == 2
\* number of handler calls in one run
MaxCalls == 5
\* number of rows of the orders table that is listed page by page
MaxListed == 3
\* largest seconds and id of the cursors encoded and decoded
MaxCursor == 12
\* number of calls in one run of the services behind the principal gate
MaxGateCalls == 4

---------------------------------------------------------------------------
(* Program constants. *)

\* geo.RadiusFeet: pickup / delivery accuracy threshold
RadiusFeet == 100

\* page sizes of the listings
maxPageSize == 100
defaultPageSize == 20

\* SQL NULL of drones.assigned_job (AUTOINCREMENT ids start at 1)
NULL == 0
\* SQL NULL of orders.pickup_lat / pickup_lng
NoLoc == -1

OrderStatusPlaced == "placed"
OrderStatusDelivered == "delivered"
OrderStatusEnRoute == "en route"
OrderStatusFailed == "failed"
OrderStatusToPickUp == "to pick up"
OrderStatusWithdrawn == "withdrawn"

DroneStatusFixed == "fixed"
DroneStatusBroken == "broken"

OrderStatuses ==
  {OrderStatusPlaced, OrderStatusDelivered, OrderStatusEnRoute,
   OrderStatusFailed, OrderStatusToPickUp, OrderStatusWithdrawn}

TerminalStatuses == {OrderStatusDelivered, OrderStatusFailed, OrderStatusWithdrawn}

---------------------------------------------------------------------------
(* The fleet, the users and the places of the model.                       *)

\* rows of the drones table: ids 1 and 12 (one id is a digit prefix of the
\* other, the case the comma-padded match of drone_path exists for)
DroneIds == {1, 12}

\* drones.serial_number (UNIQUE) and drones.name of each row; the name is
\* free text: drone 1 is named like the serial number of drone 12
DroneSerial == [d \in DroneIds |-> IF d = 1 THEN "SER-A" ELSE "SER-B"]
DroneName == [d \in DroneIds |-> IF d = 1 THEN "SER-B" ELSE "bravo"]

\* names a drone principal may present
DronePrincipals == {"SER-A", "SER-B", "bravo", "ghost"}

\* rows of the users table (ids) and their usernames (UNIQUE)
UserIds == {1, 2}
UserName == [u \in UserIds |-> IF u = 1 THEN "alice" ELSE "root"]
\* the users that place orders
Customers == {1}

\* positions, in feet along one meridian
Locs == {0, 300}
\* origin and destination of the orders placed
Routes == {<<0, 300>>}
\* origin and destination an admin may move an order to
AdminRoutes == {<<0, 300>>, <<300, 0>>}

---------------------------------------------------------------------------
(* Strings: a string is a sequence of one-character strings.               *)

DigitChar == <<"0", "1", "2", "3", "4", "5", "6", "7", "8", "9">>

\* fmt.Sprintf("%d", n) / strconv.FormatInt(n, 10) for n >= 0
RECURSIVE FormatInt(_)
FormatInt(n) ==
  IF n < 10 THEN <<DigitChar[n + 1]>>
  ELSE FormatInt(n \div 10) \o <<DigitChar[(n % 10) + 1]>>

\* SQLite instr(hay, needle): 1-based position of the first occurrence, 0 if none
instr(hay, needle) ==
  LET starts == {i \in 1..(Len(hay) - Len(needle) + 1) :
                   SubSeq(hay, i, i + Len(needle) - 1) = needle}
  IN IF starts = {} THEN 0
     ELSE CHOOSE i \in starts : \A j \in starts : i <= j

\* strings.Split(s, ","): the fields between commas, in order
RECURSIVE Split(_)
Split(s) ==
  LET commas == {i \in 1..Len(s) : s[i] = ","}
  IN IF commas = {} THEN <<s>>
     ELSE LET c == CHOOSE i \in commas : \A j \in commas : i <= j
          IN <<SubSeq(s, 1, c - 1)>> \o Split(SubSeq(s, c + 1, Len(s)))

\* strings.ToLower on the letters of the role strings
UpperChar == <<"A", "D", "E", "I", "M", "N", "R", "S", "U">>
LowerChar == <<"a", "d", "e", "i", "m", "n", "r", "s", "u">>

ToLower(s) ==
  [i \in 1..Len(s) |->
     IF \E k \in 1..Len(UpperChar) : UpperChar[k] = s[i]
     THEN LowerChar[CHOOSE k \in 1..Len(UpperChar) : UpperChar[k] = s[i]]
     ELSE s[i]]

\* strings.TrimSpace: leading and trailing white space removed
RECURSIVE TrimSpace(_)
TrimSpace(s) ==
  IF s = <<>> THEN s
  ELSE IF s[1] = " " THEN TrimSpace(Tail(s))
  ELSE IF s[Len(s)] = " " THEN TrimSpace(SubSeq(s, 1, Len(s) - 1))
  ELSE s

---------------------------------------------------------------------------
(* Page tokens.  A text is a sequence of bytes (ASCII codes), a token a     *)
(* sequence of one-character strings.                                      *)

\* cursorSeparator "|" and the signs and digits of a decimal, as bytes
SepByte == 124
PlusByte == 43
MinusByte == 45
ZeroByte == 48

\* []byte(s) for a string of digits
RECURSIVE DigitBytes(_)
DigitBytes(s) ==
  IF s = <<>> THEN <<>>
  ELSE <<ZeroByte + (CHOOSE k \in 0..9 : DigitChar[k + 1] = s[1])>>
         \o DigitBytes(Tail(s))

\* the alphabet of base64.RawURLEncoding: value v is written URLAlphabet[v + 1]
URLAlphabet ==
  <<"A", "B", "C", "D", "E", "F", "G", "H", "I", "J", "K", "L", "M",
    "N", "O", "P", "Q", "R", "S", "T", "U", "V", "W", "X", "Y", "Z",
    "a", "b", "c", "d", "e", "f", "g", "h", "i", "j", "k", "l", "m",
    "n", "o", "p", "q", "r", "s", "t", "u", "v", "w", "x", "y", "z",
    "0", "1", "2", "3", "4", "5", "6", "7", "8", "9", "-", "_">>

\* the value of character c, -1 when c is not of the alphabet
URLValue(c) ==
  IF \E v \in 0..63 : URLAlphabet[v + 1] = c
  THEN CHOOSE v \in 0..63 : URLAlphabet[v + 1] = c
  ELSE -1

\* base64.RawURLEncoding.EncodeToString: three bytes give four characters,
\* a rest of one or two bytes gives two or three; no padding
RECURSIVE EncodeToString(_)
EncodeToString(b) ==
  IF Len(b) = 0 THEN <<>>
  ELSE IF Len(b) = 1 THEN
    <<URLAlphabet[(b[1] \div 4) + 1], URLAlphabet[((b[1] % 4) * 16) + 1]>>
  ELSE IF Len(b) = 2 THEN
    <<URLAlphabet[(b[1] \div 4) + 1],
      URLAlphabet[((b[1] % 4) * 16 + b[2] \div 16) + 1],
      URLAlphabet[((b[2] % 16) * 4) + 1]>>
  ELSE
    <<URLAlphabet[(b[1] \div 4) + 1],
      URLAlphabet[((b[1] % 4) * 16 + b[2] \div 16) + 1],
      URLAlphabet[((b[2] % 16) * 4 + b[3] \div 64) + 1],
      URLAlphabet[(b[3] % 64) + 1]>>
      \o EncodeToString(SubSeq(b, 4, Len(b)))

\* the decoder drops the characters \r and \n of its input
RECURSIVE DropNewlines(_)
DropNewlines(t) ==
  IF t = <<>> THEN <<>>
  ELSE IF t[1] \in {"\n", "\r"} THEN DropNewlines(Tail(t))
  ELSE <<t[1]>> \o DropNewlines(Tail(t))

\* the bytes of a token of alphabet characters only: four characters give
\* three bytes, a rest of two or three gives one or two (its spare bits are
\* not looked at)
RECURSIVE DecodeQuanta(_)
DecodeQuanta(t) ==
  IF Len(t) < 2 THEN <<>>
  ELSE LET v == [i \in 1..4 |-> IF i <= Len(t) THEN URLValue(t[i]) ELSE 0]
           b1 == v[1] * 4 + v[2] \div 16
           b2 == (v[2] % 16) * 16 + v[3] \div 4
           b3 == (v[3] % 4) * 64 + v[4]
       IN IF Len(t) = 2 THEN <<b1>>
          ELSE IF Len(t) = 3 THEN <<b1, b2>>
          ELSE <<b1, b2, b3>> \o DecodeQuanta(SubSeq(t, 5, Len(t)))

\* base64.RawURLEncoding.DecodeString: err for a character outside the
\* alphabet ("=" included) and for a length of 1 modulo 4
DecodeString(token) ==
  LET t == DropNewlines(token)
  IN IF (\E i \in 1..Len(t) : URLValue(t[i]) = -1) \/ Len(t) % 4 = 1
     THEN [err |-> TRUE, bytes |-> <<>>]
     ELSE [err |-> FALSE, bytes |-> DecodeQuanta(t)]

\* the value of a sequence of digit bytes
RECURSIVE DigitsValue(_)
DigitsValue(b) ==
  IF b = <<>> THEN 0
  ELSE 10 * DigitsValue(SubSeq(b, 1, Len(b) - 1)) + (b[Len(b)] - ZeroByte)

\* strconv.ParseInt(s, 10, 64): an optional sign, then one digit or more
ParseInt(b) ==
  LET signed == b # <<>> /\ b[1] \in {PlusByte, MinusByte}
      digits == IF signed THEN Tail(b) ELSE b
  IN IF digits = <<>> \/ \E i \in 1..Len(digits) : digits[i] \notin ZeroByte..(ZeroByte + 9)
     THEN [err |-> TRUE, val |-> 0]
     ELSE [err |-> FALSE,
           val |-> IF signed /\ b[1] = MinusByte THEN 0 - DigitsValue(digits)
                   ELSE DigitsValue(digits)]

\* encodeCursor(seconds, id)
encodeCursor(seconds, id) ==
  EncodeToString(DigitBytes(FormatInt(seconds)) \o <<SepByte>> \o DigitBytes(FormatInt(id)))

\* decodeCursor(token): the text is cut at its first separator
\* (strings.SplitN(.., 2)) and each part parsed
decodeCursor(token) ==
  LET dec == DecodeString(token)
      b == dec.bytes
      seps == {i \in 1..Len(b) : b[i] = SepByte}
      cut == CHOOSE i \in seps : \A j \in seps : i <= j
      sec == ParseInt(SubSeq(b, 1, cut - 1))
      pid == ParseInt(SubSeq(b, cut + 1, Len(b)))
      failed == [err |-> TRUE, seconds |-> 0, id |-> 0]
  IN IF dec.err THEN failed
     ELSE IF seps = {} THEN failed
     ELSE IF sec.err \/ pid.err THEN failed
     ELSE [err |-> FALSE, seconds |-> sec.val, id |-> pid.val]

---------------------------------------------------------------------------
(* Users and principals.                                                   *)

\* the role strings: "end user" (the default of users.role) and "admin"
RoleEndUser == <<"e", "n", "d", " ", "u", "s", "e", "r">>
RoleAdmin == <<"a", "d", "m", "i", "n">>
\* the roles UpdateRoleByUsername is called with: the two above and
\* " Admin", which is admin once lowercased and trimmed
Roles == {RoleEndUser, RoleAdmin, <<" ", "A", "d", "m", "i", "n">>}

\* the users table as seeded: alice an end user, root an admin
SeededUsers ==
  [u \in UserIds |-> [role |-> IF u = 1 THEN RoleEndUser ELSE RoleAdmin]]

\* UserRepository.GetByUsername: the row's id, NULL when no row
GetByUsername(name) ==
  IF \E u \in UserIds : UserName[u] = name
  THEN CHOOSE u \in UserIds : UserName[u] = name
  ELSE NULL

\* UserRepository.UpdateRoleByUsername
UpdateRole(usrs, name, role) ==
  [u \in UserIds |-> IF UserName[u] = name THEN [role |-> role] ELSE usrs[u]]

\* a call that carries no valid bearer credential
NoPrincipal == [name |-> "", kind |-> ""]

\* the principals parseJWT yields (kind already lowercased) and the absent one
Principals ==
  {NoPrincipal,
   [name |-> "SER-A", kind |-> "drone"],
   [name |-> "alice", kind |-> "enduser"],
   [name |-> "alice", kind |-> "admin"], [name |-> "root", kind |-> "admin"],
   [name |-> "mallory", kind |-> "admin"]}

\* NewUnaryAuthInterceptor: a call without a valid credential is answered
\* Unauthenticated before its handler runs
Interceptor(p) == IF p = NoPrincipal THEN "Unauthenticated" ELSE "OK"

\* auth.RequirePrincipal
RequirePrincipal(p) == IF p = NoPrincipal THEN "Unauthenticated" ELSE "OK"

\* auth.RequireKind
RequireKind(p, kind) ==
  IF RequirePrincipal(p) # "OK" THEN RequirePrincipal(p)
  ELSE IF p.kind # kind THEN "PermissionDenied"
  ELSE "OK"

\* auth.RequireDrone
RequireDrone(p) == RequireKind(p, "drone")

\* auth.RequireEndUserOrAdmin
RequireEndUserOrAdmin(p) ==
  IF RequirePrincipal(p) # "OK" THEN RequirePrincipal(p)
  ELSE IF p.kind # "enduser" /\ p.kind # "admin" THEN "PermissionDenied"
  ELSE "OK"

\* an admin gate that trusts the kind the caller claims
RequireAdmin_KindOnly(p, usrs) == RequireKind(p, "admin")

\* auth.RequireAdmin: the kind, then the persisted role of the user named
RequireAdmin(p, usrs) ==
  IF RequireKind(p, "admin") # "OK" THEN RequireKind(p, "admin")
  ELSE LET u == GetByUsername(p.name)
       IN IF u = NULL \/ ToLower(TrimSpace(usrs[u].role)) # RoleAdmin
          THEN "PermissionDenied"
          ELSE "OK"

\* Server.resolveCurrentUser: the user named by the principal, NULL (the
\* caller answers NotFound) when there is none
resolveCurrentUser(p) == GetByUsername(p.name)

---------------------------------------------------------------------------
(* Geo primitive.                                                          *)

\* geo.HaversineMiles, in feet: along a meridian the great-circle distance
\* is the radius times the difference of latitudes
HaversineFeet(a, b) == IF a >= b THEN a - b ELSE b - a

\* the handlers' test "distance > geo.FeetToMiles(geo.RadiusFeet)"
OutsideRadius(a, b) == HaversineFeet(a, b) > RadiusFeet

---------------------------------------------------------------------------
(* State.                                                                  *)

VARIABLES
  drones,   \* drones table: id -> [status, assignedJob, loc, speed]
  orders,   \* orders table: row i has id i (AUTOINCREMENT, rows never deleted)
  req,      \* request slots: the handlers in flight
  calls,    \* number of handlers called so far
  users     \* users table: id -> [role]

vars == <<drones, orders, req, calls, users>>

\* two handlers may be in flight at the same time
Slots == {1, 2}

\* a slot holding no handler
Idle ==
  [pc |-> "idle", op |-> "none", d |-> NULL, loc |-> NoLoc, ord |-> NULL,
   flag |-> FALSE, res |-> "none", prior |-> {}, seen |-> "none",
   page |-> <<>>, who |-> "", next |-> <<>>, eta |-> 0]

\* the handler of slot r returns with gRPC status code; its local variables
\* are dead
Done(r, code) == [Idle EXCEPT !.pc = "done", !.op = r.op, !.d = r.d, !.res = code]

\* one more handler is called
Call == calls < MaxCalls /\ calls' = calls + 1

AllIdle == \A s \in Slots : req[s].pc = "idle"

\* a new handler takes the first free slot (which slot it takes does not
\* matter: slots are interchangeable)
FreeSlot(s) == req[s].pc = "idle" /\ \A t \in 1..(s - 1) : req[t].pc # "idle"

---------------------------------------------------------------------------
(* Entity store: orders.                                                   *)

OrderIds == 1..Len(orders)

\* OrderRepository.GetByID returns nil for a missing row
OrderExists(ords, id) == id \in 1..Len(ords)

\* an INSERT that fills the pickup columns with the origin
CreateOrder_PickupAtOrigin(ords, user, origin, dest, now) ==
  Append(ords, [status |-> OrderStatusPlaced, origin |-> origin, dest |-> dest,
                pickup |-> origin, dronePath |-> <<>>, submittedBy |-> user,
                placementAt |-> now])

\* an INSERT that files every order under the first user
CreateOrder_FirstUser(ords, user, origin, dest, now) ==
  Append(ords, [status |-> OrderStatusPlaced, origin |-> origin, dest |-> dest,
                pickup |-> NoLoc, dronePath |-> <<>>, submittedBy |-> 1,
                placementAt |-> now])

\* OrderRepository.Create: status placed, placement_date CURRENT_TIMESTAMP,
\* pickup and drone_path NULL (the empty string stands for NULL: GetByID reads
\* both as "", and AppendDronePath and the reservation query treat them alike)
CreateOrder(ords, user, origin, dest, now) ==
  Append(ords,
         [status |-> OrderStatusPlaced, origin |-> origin, dest |-> dest,
          pickup |-> NoLoc, dronePath |-> <<>>, submittedBy |-> user,
          placementAt |-> now])

\* OrderRepository.UpdateStatus: UPDATE orders SET status = ? WHERE id = ?
OrderUpdateStatus(ords, id, st) ==
  IF OrderExists(ords, id) THEN [ords EXCEPT ![id].status = st] ELSE ords

\* OrderRepository.Withdraw
Withdraw(ords, id) == OrderUpdateStatus(ords, id, OrderStatusWithdrawn)

\* a handoff that records no pickup location
UpdatePickupLocation_Noop(ords, id, loc) == ords

\* OrderRepository.UpdatePickupLocation
UpdatePickupLocation(ords, id, loc) ==
  IF OrderExists(ords, id) THEN [ords EXCEPT ![id].pickup = loc] ELSE ords

\* an UPDATE of the coordinates that also puts the order back to placed
UpdateLocations_Places(ords, id, origin, dest) ==
  IF OrderExists(ords, id)
  THEN [ords EXCEPT ![id].origin = origin, ![id].dest = dest,
                    ![id].status = OrderStatusPlaced]
  ELSE ords

\* OrderRepository.UpdateLocations
UpdateLocations(ords, id, origin, dest) ==
  IF OrderExists(ords, id)
  THEN [ords EXCEPT ![id].origin = origin, ![id].dest = dest]
  ELSE ords

\* AppendDronePath putting the new id in front of the path
AppendDronePath_Prepend(ords, id, droneID) ==
  IF OrderExists(ords, id)
  THEN [ords EXCEPT ![id].dronePath =
          IF @ = <<>> THEN FormatInt(droneID)
          ELSE FormatInt(droneID) \o <<",">> \o @]
  ELSE ords

\* OrderRepository.AppendDronePath: the id when the path is empty, else
\* path || ',' || id
AppendDronePath(ords, id, droneID) ==
  IF OrderExists(ords, id)
  THEN [ords EXCEPT ![id].dronePath =
          IF @ = <<>> THEN FormatInt(droneID)
          ELSE @ \o <<",">> \o FormatInt(droneID)]
  ELSE ords

\* OrderRepository.IsDroneInPath: split on commas and compare each field
IsDroneInPath(ords, id, droneID) ==
  /\ OrderExists(ords, id)
  /\ ords[id].dronePath # <<>>
  /\ LET paths == Split(ords[id].dronePath)
     IN \E i \in 1..Len(paths) : paths[i] = FormatInt(droneID)

\* ORDER BY placement_date DESC, id DESC
RECURSIVE NewestFirst(_, _)
NewestFirst(ords, rows) ==
  IF rows = {} THEN <<>>
  ELSE LET first == CHOOSE o \in rows : \A o2 \in rows \ {o} :
                      \/ ords[o].placementAt > ords[o2].placementAt
                      \/ /\ ords[o].placementAt = ords[o2].placementAt
                         /\ o > o2
       IN <<first>> \o NewestFirst(ords, rows \ {first})

\* a listing whose cursor looks at the seconds only
ListByUserIDPage_SecondsOnly(ords, userID, pageSize, afterSeconds, afterID) ==
  LET rows == {o \in 1..Len(ords) :
                 /\ ords[o].submittedBy = userID
                 /\ (afterSeconds > 0 /\ afterID > 0)
                      => ords[o].placementAt < afterSeconds}
      sorted == NewestFirst(ords, rows)
      n == IF Len(sorted) < pageSize THEN Len(sorted) ELSE pageSize
  IN [i \in 1..n |-> [id |-> sorted[i], status |-> ords[sorted[i]].status]]

\* a listing that leaves out the withdrawn orders
ListByUserIDPage_Active(ords, userID, pageSize, afterSeconds, afterID) ==
  LET rows == {o \in 1..Len(ords) :
                 /\ ords[o].submittedBy = userID
                 /\ ords[o].status # OrderStatusWithdrawn}
      sorted == NewestFirst(ords, rows)
  IN [i \in 1..Len(sorted) |-> [id |-> sorted[i], status |-> ords[sorted[i]].status]]

\* OrderRepository.ListByUserIDPage: the user's orders after the cursor
\* (afterSeconds, afterID), newest first, at most pageSize of them; each row
\* is read with its id and status
ListByUserIDPage(ords, userID, pageSize, afterSeconds, afterID) ==
  LET size == IF pageSize <= 0 THEN 20
              ELSE IF pageSize > 100 THEN 100 ELSE pageSize
      rows == {o \in 1..Len(ords) :
                 /\ ords[o].submittedBy = userID
                 /\ (afterSeconds > 0 /\ afterID > 0)
                      => \/ ords[o].placementAt < afterSeconds
                         \/ /\ ords[o].placementAt = afterSeconds
                            /\ o < afterID}
      sorted == NewestFirst(ords, rows)
      n == IF Len(sorted) < size THEN Len(sorted) ELSE size
  IN [i \in 1..n |-> [id |-> sorted[i], status |-> ords[sorted[i]].status]]

---------------------------------------------------------------------------
(* Entity store: drones.                                                   *)

\* DroneRepository.GetBySerial / GetByName: the row's id, NULL when no row
GetBySerial(serial) ==
  IF \E d \in DroneIds : DroneSerial[d] = serial
  THEN CHOOSE d \in DroneIds : DroneSerial[d] = serial
  ELSE NULL

GetByName(name) ==
  IF \E d \in DroneIds : DroneName[d] = name
  THEN CHOOSE d \in DroneIds : DroneName[d] = name
  ELSE NULL

\* DroneServer.resolveDrone: by serial number, falling back to name
resolveDrone(principalName) ==
  IF GetBySerial(principalName) # NULL THEN GetBySerial(principalName)
  ELSE GetByName(principalName)

\* DroneRepository.Create: the row inserted for a drone given with status st
\* ("" when the caller leaves the status out); no job, at position 0, at rest
DroneCreate(st) ==
  [status |-> IF st = "" THEN DroneStatusFixed ELSE st,
   assignedJob |-> NULL, loc |-> 0, speed |-> 0]

\* AssignJob on a column without the UNIQUE constraint
UniqueViolation_Off(drs, id, orderID) == FALSE

\* the UNIQUE constraint of drones.assigned_job: the UPDATE of AssignJob fails
\* when another row already holds orderID
UniqueViolation(drs, id, orderID) ==
  \E d2 \in DroneIds : d2 # id /\ drs[d2].assignedJob = orderID

\* DroneRepository.AssignJob (the write, once the constraint allows it)
AssignJob(drs, id, orderID) == [drs EXCEPT ![id].assignedJob = orderID]

\* DroneRepository.UnassignJob
UnassignJob(drs, id) == [drs EXCEPT ![id].assignedJob = NULL]

\* an UPDATE of the status that also drops the drone's job
DroneUpdateStatus_Unassigns(drs, id, st) ==
  IF id \in DOMAIN drs
  THEN [drs EXCEPT ![id].status = st, ![id].assignedJob = NULL]
  ELSE drs

\* DroneRepository.UpdateStatus: UPDATE drones SET status = ? WHERE id = ?;
\* no row is written when none has the id, and that is no error
DroneUpdateStatus(drs, id, st) ==
  IF id \in DOMAIN drs THEN [drs EXCEPT ![id].status = st] ELSE drs

\* a location update that also drops the drone's job
UpdateLocationAndSpeed_Unassigns(drs, id, loc, speed) ==
  [drs EXCEPT ![id].loc = loc, ![id].speed = speed, ![id].assignedJob = NULL]

\* a location update that also puts the drone back in service
UpdateLocationAndSpeed_Revives(drs, id, loc, speed) ==
  [drs EXCEPT ![id].loc = loc, ![id].speed = speed,
              ![id].status = DroneStatusFixed]

\* DroneRepository.UpdateLocationAndSpeed: UPDATE drones SET lat = ?, lng = ?,
\* speed_mph = ? WHERE id = ?
UpdateLocationAndSpeed(drs, id, loc, speed) ==
  [drs EXCEPT ![id].loc = loc, ![id].speed = speed]

---------------------------------------------------------------------------
(* The selection policy.                                                   *)

\* the WHERE clause with instr on the bare path and the bare id
Available_Unpadded(drs, ords, droneID, o) ==
  /\ \A d \in DroneIds : drs[d].assignedJob # o
  /\ ords[o].status \in {OrderStatusToPickUp, OrderStatusPlaced}
  /\ instr(ords[o].dronePath, FormatInt(droneID)) = 0

\* the WHERE clause without the drone_path condition
Available_AnyPath(drs, ords, droneID, o) ==
  /\ \A d \in DroneIds : drs[d].assignedJob # o
  /\ ords[o].status \in {OrderStatusToPickUp, OrderStatusPlaced}

\* WHERE clause of FindNextAvailableForReservation
Available(drs, ords, droneID, o) ==
  /\ \A d \in DroneIds : drs[d].assignedJob # o
  /\ ords[o].status \in {OrderStatusToPickUp, OrderStatusPlaced}
  /\ instr(<<",">> \o ords[o].dronePath \o <<",">>,
           <<",">> \o FormatInt(droneID) \o <<",">>) = 0

\* an ORDER BY without the CASE on the status
StatusRank_Flat(st) == 1

\* ORDER BY CASE WHEN status = 'to pick up' THEN 0 ELSE 1 END,
\*          placement_date ASC, id ASC
StatusRank(st) == IF st = OrderStatusToPickUp THEN 0 ELSE 1

SortsBefore(ords, a, b) ==
  \/ StatusRank(ords[a].status) < StatusRank(ords[b].status)
  \/ /\ StatusRank(ords[a].status) = StatusRank(ords[b].status)
     /\ \/ ords[a].placementAt < ords[b].placementAt
        \/ /\ ords[a].placementAt = ords[b].placementAt
           /\ a < b

\* OrderRepository.FindNextAvailableForReservation: LIMIT 1 of the ordered
\* rows; NULL for sql.ErrNoRows
FindNextAvailableForReservation(drs, ords, droneID) ==
  LET rows == {o \in 1..Len(ords) : Available(drs, ords, droneID, o)}
  IN IF rows = {} THEN NULL
     ELSE CHOOSE o \in rows : \A o2 \in rows : o2 = o \/ SortsBefore(ords, o, o2)

---------------------------------------------------------------------------
(* DroneServer.ReserveOrder.                                               *)

\* DroneServer.ReserveOrder up to its checks of the drone row it read
ReserveOrder(s, p) ==
  /\ FreeSlot(s)
  /\ LET d == resolveDrone(p)
         r == [Idle EXCEPT !.op = "ReserveOrder", !.d = d]
     IN req' = [req EXCEPT ![s] =
          IF d = NULL THEN Done(r, "NotFound")
          ELSE IF drones[d].status = DroneStatusBroken
            THEN Done(r, "FailedPrecondition")
          ELSE IF drones[d].assignedJob # NULL
            THEN Done(r, "FailedPrecondition")
          ELSE [r EXCEPT !.pc = "rsv_find",
                         !.prior = {o \in OrderIds : IsDroneInPath(orders, o, d)}]]
  /\ UNCHANGED <<users, drones, orders>>

\* ReserveOrder without the check of the drone's status
StartReserve_AnyStatus(s, p) ==
  /\ Call
  /\ FreeSlot(s)
  /\ LET d == resolveDrone(p)
         r == [Idle EXCEPT !.op = "ReserveOrder", !.d = d]
     IN req' = [req EXCEPT ![s] =
          IF d = NULL THEN Done(r, "NotFound")
          ELSE IF drones[d].assignedJob # NULL
            THEN Done(r, "FailedPrecondition")
          ELSE [r EXCEPT !.pc = "rsv_find",
                         !.prior = {o \in OrderIds : IsDroneInPath(orders, o, d)}]]
  /\ UNCHANGED <<users, drones, orders>>

\* resolveDrone and the checks of the drone row it returned
StartReserve(s, p) ==
  /\ Call
  /\ ReserveOrder(s, p)

\* Orders.FindNextAvailableForReservation(dr.ID)
ReserveFind(s) ==
  /\ req[s].pc = "rsv_find"
  /\ LET ord == FindNextAvailableForReservation(drones, orders, req[s].d)
     IN req' = [req EXCEPT ![s] =
          IF ord = NULL THEN Done(@, "FailedPrecondition")
          ELSE [@ EXCEPT !.pc = "rsv_assign", !.ord = ord]]
  /\ UNCHANGED <<users, drones, orders, calls>>

\* ReserveOrder ignoring the error of AssignJob
ReserveAssign_IgnoreErr(s) ==
  /\ req[s].pc = "rsv_assign"
  /\ IF UniqueViolation(drones, req[s].d, req[s].ord)
     THEN UNCHANGED drones
     ELSE drones' = AssignJob(drones, req[s].d, req[s].ord)
  /\ req' = [req EXCEPT ![s].pc = "rsv_append"]
  /\ UNCHANGED <<users, orders, calls>>

\* Drones.AssignJob(dr.ID, ord.ID); an error is returned as Aborted
ReserveAssign(s) ==
  /\ req[s].pc = "rsv_assign"
  /\ IF UniqueViolation(drones, req[s].d, req[s].ord)
     THEN /\ req' = [req EXCEPT ![s] = Done(@, "Aborted")]
          /\ UNCHANGED <<users, drones, calls>>
     ELSE /\ drones' = AssignJob(drones, req[s].d, req[s].ord)
          /\ req' = [req EXCEPT ![s].pc = "rsv_append"]
  /\ UNCHANGED <<users, orders, calls>>

\* a reservation that resets the pickup location of the order
ReserveAppend_ClearsPickup(s) ==
  /\ req[s].pc = "rsv_append"
  /\ orders' = UpdatePickupLocation(
                 AppendDronePath(orders, req[s].ord, req[s].d), req[s].ord, NoLoc)
  /\ req' = [req EXCEPT ![s] = Done(@, "OK")]
  /\ UNCHANGED <<users, drones, calls>>

\* Orders.AppendDronePath(ord.ID, dr.ID), then the response
ReserveAppend(s) ==
  /\ req[s].pc = "rsv_append"
  /\ orders' = AppendDronePath(orders, req[s].ord, req[s].d)
  /\ req' = [req EXCEPT ![s] = Done(@, "OK")]
  /\ UNCHANGED <<users, drones, calls>>

---------------------------------------------------------------------------
(* DroneServer.GrabOrder.                                                  *)

\* DroneServer.GrabOrder up to its checks of the drone row it read
GrabOrder(s, p) ==
  /\ FreeSlot(s)
  /\ LET d == resolveDrone(p)
         r == [Idle EXCEPT !.op = "GrabOrder", !.d = d]
     IN req' = [req EXCEPT ![s] =
          IF d = NULL THEN Done(r, "NotFound")
          ELSE IF drones[d].assignedJob = NULL
            THEN Done(r, "FailedPrecondition")
          ELSE [r EXCEPT !.pc = "grab_get", !.ord = drones[d].assignedJob,
                         !.loc = drones[d].loc]]
  /\ UNCHANGED <<users, drones, orders>>

\* a GrabOrder call
StartGrab(s, p) ==
  /\ Call
  /\ GrabOrder(s, p)

\* a target that is the origin whatever the status
GrabTarget_Origin(o) == o.origin

\* pickup target of GrabOrder: the recorded pickup point of a handed-off
\* order, else the origin
GrabTarget(o) ==
  IF o.status = OrderStatusToPickUp /\ o.pickup # NoLoc THEN o.pickup
  ELSE o.origin

\* GrabOrder without the check of the order's status
GrabGet_AnyStatus(s) ==
  /\ req[s].pc = "grab_get"
  /\ IF ~OrderExists(orders, req[s].ord)
     THEN /\ drones' = UnassignJob(drones, req[s].d)
          /\ req' = [req EXCEPT ![s] = Done(@, "NotFound")]
     ELSE /\ UNCHANGED drones
          /\ LET o == orders[req[s].ord]
             IN req' = [req EXCEPT ![s] =
                  IF OutsideRadius(req[s].loc, GrabTarget(o))
                    THEN Done(@, "FailedPrecondition")
                  ELSE [@ EXCEPT !.pc = "grab_set", !.loc = NoLoc]]
  /\ UNCHANGED <<users, orders, calls>>

\* Orders.GetByID(*dr.AssignedJob) and the checks of the order read
GrabGet(s) ==
  /\ req[s].pc = "grab_get"
  /\ IF ~OrderExists(orders, req[s].ord)
     THEN /\ drones' = UnassignJob(drones, req[s].d)
          /\ req' = [req EXCEPT ![s] = Done(@, "NotFound")]
     ELSE /\ UNCHANGED drones
          /\ LET o == orders[req[s].ord]
             IN req' = [req EXCEPT ![s] =
                  IF o.status # OrderStatusPlaced /\ o.status # OrderStatusToPickUp
                    THEN Done(@, "FailedPrecondition")
                  ELSE IF OutsideRadius(req[s].loc, GrabTarget(o))
                    THEN Done(@, "FailedPrecondition")
                  ELSE [@ EXCEPT !.pc = "grab_set", !.loc = NoLoc]]
  /\ UNCHANGED <<users, orders, calls>>

\* Orders.UpdateStatus(ord.ID, en route), then the response
GrabSet(s) ==
  /\ req[s].pc = "grab_set"
  /\ orders' = OrderUpdateStatus(orders, req[s].ord, OrderStatusEnRoute)
  /\ req' = [req EXCEPT ![s] = Done(@, "OK")]
  /\ UNCHANGED <<users, drones, calls>>

---------------------------------------------------------------------------
(* DroneServer.CompleteOrder.                                              *)

\* DroneServer.CompleteOrder up to its checks of the drone row it read
CompleteOrder(s, p, delivered) ==
  /\ FreeSlot(s)
  /\ LET d == resolveDrone(p)
         r == [Idle EXCEPT !.op = "CompleteOrder", !.d = d]
     IN req' = [req EXCEPT ![s] =
          IF d = NULL THEN Done(r, "NotFound")
          ELSE IF drones[d].assignedJob = NULL
            THEN Done(r, "FailedPrecondition")
          ELSE [r EXCEPT !.pc = "cmp_get", !.ord = drones[d].assignedJob,
                         !.loc = drones[d].loc, !.flag = delivered]]
  /\ UNCHANGED <<users, drones, orders>>

\* a CompleteOrder call
StartComplete(s, p, delivered) ==
  /\ Call
  /\ CompleteOrder(s, p, delivered)

\* Orders.GetByID(*dr.AssignedJob) and the destination geofence
CompleteGet(s) ==
  /\ req[s].pc = "cmp_get"
  /\ IF ~OrderExists(orders, req[s].ord)
     THEN /\ drones' = UnassignJob(drones, req[s].d)
          /\ req' = [req EXCEPT ![s] = Done(@, "NotFound")]
     ELSE /\ UNCHANGED drones
          /\ req' = [req EXCEPT ![s] =
               IF OutsideRadius(req[s].loc, orders[req[s].ord].dest)
                 THEN Done(@, "FailedPrecondition")
               ELSE [@ EXCEPT !.pc = "cmp_set", !.loc = NoLoc]]
  /\ UNCHANGED <<users, orders, calls>>

\* a CompleteOrder that ignores the delivered flag
FinalStatus_AlwaysDelivered(delivered) == OrderStatusDelivered

\* finalStatus of CompleteOrder
FinalStatus(delivered) ==
  IF delivered THEN OrderStatusDelivered ELSE OrderStatusFailed

\* Orders.UpdateStatus(ord.ID, finalStatus)
CompleteSet(s) ==
  /\ req[s].pc = "cmp_set"
  /\ orders' = OrderUpdateStatus(orders, req[s].ord, FinalStatus(req[s].flag))
  /\ req' = [req EXCEPT ![s].pc = "cmp_unassign"]
  /\ UNCHANGED <<users, drones, calls>>

\* a CompleteOrder that leaves the drone its order
CompleteUnassign_Keeps(s) ==
  /\ req[s].pc = "cmp_unassign"
  /\ req' = [req EXCEPT ![s] = Done(@, "OK")]
  /\ UNCHANGED <<users, drones, orders, calls>>

\* Drones.UnassignJob(dr.ID), then the response
CompleteUnassign(s) ==
  /\ req[s].pc = "cmp_unassign"
  /\ drones' = UnassignJob(drones, req[s].d)
  /\ req' = [req EXCEPT ![s] = Done(@, "OK")]
  /\ UNCHANGED <<users, orders, calls>>

---------------------------------------------------------------------------
(* DroneServer.MarkBroken.  flag records "affected != nil".                *)

\* the status of order id as an observer of the call sees it
StatusAt(ords, id) ==
  IF OrderExists(ords, id) THEN ords[id].status ELSE "none"

\* seen: the status the assigned order had when MarkBroken was called
StartMarkBroken(s, p) ==
  /\ Call
  /\ FreeSlot(s)
  /\ LET d == resolveDrone(p)
         r == [Idle EXCEPT !.op = "MarkBroken", !.d = d]
     IN req' = [req EXCEPT ![s] =
          IF d = NULL THEN Done(r, "NotFound")
          ELSE IF drones[d].assignedJob # NULL
            THEN [r EXCEPT !.pc = "brk_get", !.ord = drones[d].assignedJob,
                           !.loc = drones[d].loc,
                           !.seen = StatusAt(orders, drones[d].assignedJob)]
          ELSE [r EXCEPT !.pc = "brk_broken"]]
  /\ UNCHANGED <<users, drones, orders>>

\* MarkBroken handing off whatever the status of the order
BrokenGet_Always(s) ==
  /\ req[s].pc = "brk_get"
  /\ req' = [req EXCEPT ![s].pc = "brk_status"]
  /\ UNCHANGED <<users, drones, orders, calls>>

\* Orders.GetByID(*dr.AssignedJob): a handoff only for an en route order
BrokenGet(s) ==
  /\ req[s].pc = "brk_get"
  /\ req' = [req EXCEPT ![s] =
       IF /\ OrderExists(orders, req[s].ord)
          /\ orders[req[s].ord].status = OrderStatusEnRoute
       THEN [@ EXCEPT !.pc = "brk_status"]
       ELSE [@ EXCEPT !.pc = "brk_unassign", !.loc = NoLoc]]
  /\ UNCHANGED <<users, drones, orders, calls>>

\* Orders.UpdateStatus(ord.ID, to pick up)
BrokenStatus(s) ==
  /\ req[s].pc = "brk_status"
  /\ orders' = OrderUpdateStatus(orders, req[s].ord, OrderStatusToPickUp)
  /\ req' = [req EXCEPT ![s].pc = "brk_pickup"]
  /\ UNCHANGED <<users, drones, calls>>

\* Orders.UpdatePickupLocation(ord.ID, dr.Lat, dr.Lng)
BrokenPickup(s) ==
  /\ req[s].pc = "brk_pickup"
  /\ orders' = UpdatePickupLocation(orders, req[s].ord, req[s].loc)
  /\ req' = [req EXCEPT ![s].pc = "brk_unassign", ![s].flag = TRUE]
  /\ UNCHANGED <<users, drones, calls>>

\* Drones.UnassignJob(dr.ID)
BrokenUnassign(s) ==
  /\ req[s].pc = "brk_unassign"
  /\ drones' = UnassignJob(drones, req[s].d)
  /\ req' = [req EXCEPT ![s].pc = "brk_broken"]
  /\ UNCHANGED <<users, orders, calls>>

\* Drones.UpdateStatus(dr.ID, broken), then the response
BrokenBroken(s) ==
  /\ req[s].pc = "brk_broken"
  /\ drones' = DroneUpdateStatus(drones, req[s].d, DroneStatusBroken)
  /\ req' = [req EXCEPT ![s] = Done(@, "OK")]
  /\ UNCHANGED <<users, orders, calls>>

---------------------------------------------------------------------------
(* Server.WithdrawOrder, called by user u for order id.                    *)

\* the request check, Orders.GetByID and the ownership check
StartWithdraw(s, u, id) ==
  /\ Call
  /\ FreeSlot(s)
  /\ LET r == [Idle EXCEPT !.op = "WithdrawOrder", !.ord = id]
     IN req' = [req EXCEPT ![s] =
          IF id = 0 THEN Done(r, "InvalidArgument")
          ELSE IF ~OrderExists(orders, id) THEN Done(r, "NotFound")
          ELSE IF orders[id].submittedBy # u THEN Done(r, "PermissionDenied")
          ELSE [r EXCEPT !.pc = "wd_set"]]
  /\ UNCHANGED <<users, drones, orders>>

\* Orders.Withdraw(req.OrderId), then the response
WithdrawSet(s) ==
  /\ req[s].pc = "wd_set"
  /\ orders' = Withdraw(orders, req[s].ord)
  /\ req' = [req EXCEPT ![s] = Done(@, "OK")]
  /\ UNCHANGED <<users, drones, calls>>

---------------------------------------------------------------------------
(* Server.ListOrders by user u.  The response (the page and the token of   *)
(* the next one) stays in the slot.                                        *)

\* a ListOrders that gives a token with every page that is not empty
ListOrdersResponse_AlwaysToken(ords, u, pageSize, pageToken) ==
  LET size0 == IF pageSize > 0 THEN pageSize ELSE defaultPageSize
      size == IF size0 > maxPageSize THEN maxPageSize ELSE size0
      cur == IF pageToken # <<>> THEN decodeCursor(pageToken)
             ELSE [err |-> FALSE, seconds |-> 0, id |-> 0]
      list == ListByUserIDPage(ords, u, size, cur.seconds, cur.id)
      last == list[Len(list)].id
  IN IF cur.err THEN [res |-> "InvalidArgument", page |-> <<>>, next |-> <<>>]
     ELSE [res |-> "OK", page |-> list,
           next |-> IF Len(list) > 0
                    THEN encodeCursor(ords[last].placementAt, last)
                    ELSE <<>>]

\* what ListOrders answers for the tables ords: the status code, the page
\* and NextPageToken ("" is <<>>); the token names the last row of a full page
ListOrdersResponse(ords, u, pageSize, pageToken) ==
  LET size0 == IF pageSize > 0 THEN pageSize ELSE defaultPageSize
      size == IF size0 > maxPageSize THEN maxPageSize ELSE size0
      cur == IF pageToken # <<>> THEN decodeCursor(pageToken)
             ELSE [err |-> FALSE, seconds |-> 0, id |-> 0]
      list == ListByUserIDPage(ords, u, size, cur.seconds, cur.id)
      last == list[Len(list)].id
  IN IF cur.err THEN [res |-> "InvalidArgument", page |-> <<>>, next |-> <<>>]
     ELSE [res |-> "OK", page |-> list,
           next |-> IF Len(list) = size /\ Len(list) > 0
                    THEN encodeCursor(ords[last].placementAt, last)
                    ELSE <<>>]

ListOrders(s, u, pageSize, pageToken) ==
  /\ Call
  /\ FreeSlot(s)
  /\ LET r == [Idle EXCEPT !.op = "ListOrders"]
         rsp == ListOrdersResponse(orders, u, pageSize, pageToken)
     IN req' = [req EXCEPT ![s] =
          [Done(r, rsp.res) EXCEPT !.page = rsp.page, !.next = rsp.next]]
  /\ UNCHANGED <<users, drones, orders>>

---------------------------------------------------------------------------
(* Handlers with a single write.                                           *)

\* Server.SetOrder by user u: Orders.Create; placement_date is the server
\* clock (seconds since the epoch, positive), which never runs backwards
SetOrder(u, origin, dest) ==
  /\ Call
  /\ Len(orders) < MaxOrders
  /\ LET last == IF orders = <<>> THEN 1 ELSE orders[Len(orders)].placementAt
     IN \E now \in {last, last + 1} :
          orders' = CreateOrder(orders, u, origin, dest, now)
  /\ UNCHANGED <<users, drones, req>>

\* DroneServer.Heartbeat: resolveDrone, then Drones.UpdateLocationAndSpeed;
\* the request gives the location and leaves speed_mph out (0)
HeartbeatWrite(p, loc) ==
  /\ resolveDrone(p) # NULL
  /\ drones' = UpdateLocationAndSpeed(drones, resolveDrone(p), loc, 0)
  /\ UNCHANGED <<users, orders, req>>

\* a Heartbeat call
Heartbeat(p, loc) ==
  /\ Call
  /\ HeartbeatWrite(p, loc)

\* DroneServer.GetAssignedOrder: resolveDrone, Orders.GetByID and the ETA;
\* it reads only
GetAssignedOrder(p) ==
  /\ Call
  /\ UNCHANGED <<users, drones, orders, req>>

\* AdminServer.UpdateDroneStatus
UpdateDroneStatus(d, st) ==
  /\ Call
  /\ drones' = DroneUpdateStatus(drones, d, st)
  /\ UNCHANGED <<users, orders, req>>

\* AdminServer.UpdateOrderLocation
UpdateOrderLocation(id, origin, dest) ==
  /\ Call
  /\ OrderExists(orders, id)
  /\ orders' = UpdateLocations(orders, id, origin, dest)
  /\ UNCHANGED <<users, drones, req>>

---------------------------------------------------------------------------
(* The RPCs as a caller with principal p reaches them: the interceptor,    *)
(* the handler's gate and argument checks, then the handler proper.  The   *)
(* answer stays in the slot.                                               *)

\* the interceptor, then the handler's own Require... check
Gate(p, check) == IF Interceptor(p) # "OK" THEN Interceptor(p) ELSE check

\* the handler of op, called by p, returns code without having written
\* anything; who: the name the caller presented
Answer(s, p, op, code) ==
  /\ Call
  /\ FreeSlot(s)
  /\ req' = [req EXCEPT ![s] =
               [Done([Idle EXCEPT !.op = op], code) EXCEPT !.who = p.name]]
  /\ UNCHANGED <<users, drones, orders>>

RpcReserveOrder(s, p) ==
  IF Gate(p, RequireDrone(p)) # "OK"
  THEN Answer(s, p, "ReserveOrder", Gate(p, RequireDrone(p)))
  ELSE StartReserve(s, p.name)

RpcGrabOrder(s, p) ==
  IF Gate(p, RequireDrone(p)) # "OK"
  THEN Answer(s, p, "GrabOrder", Gate(p, RequireDrone(p)))
  ELSE StartGrab(s, p.name)

RpcCompleteOrder(s, p, delivered) ==
  IF Gate(p, RequireDrone(p)) # "OK"
  THEN Answer(s, p, "CompleteOrder", Gate(p, RequireDrone(p)))
  ELSE StartComplete(s, p.name, delivered)

RpcMarkBroken(s, p) ==
  IF Gate(p, RequireDrone(p)) # "OK"
  THEN Answer(s, p, "MarkBroken", Gate(p, RequireDrone(p)))
  ELSE StartMarkBroken(s, p.name)

\* DroneServer.Heartbeat; loc = NoLoc is a request without location
RpcHeartbeatSpeed(s, p, loc, speed) ==
  LET d == resolveDrone(p.name)
  IN IF Gate(p, RequireDrone(p)) # "OK"
       THEN Answer(s, p, "Heartbeat", Gate(p, RequireDrone(p)))
     ELSE IF loc = NoLoc THEN Answer(s, p, "Heartbeat", "InvalidArgument")
     ELSE IF d = NULL THEN Answer(s, p, "Heartbeat", "NotFound")
     ELSE /\ Call
          /\ FreeSlot(s)
          /\ drones' = UpdateLocationAndSpeed(drones, d, loc, speed)
          /\ req' = [req EXCEPT ![s] =
                       [Done([Idle EXCEPT !.op = "Heartbeat", !.d = d], "OK")
                          EXCEPT !.who = p.name]]
          /\ UNCHANGED <<users, orders>>

\* a heartbeat that leaves speed_mph out (0)
RpcHeartbeat(s, p, loc) == RpcHeartbeatSpeed(s, p, loc, 0)

\* the time to fly dist at speed: HaversineMiles / SpeedMPH * 3600 seconds.
\* Distances are in feet here, so the value is in 1/5280 of a second
FlightTime(dist, speed) == (dist * 3600) \div speed

\* an ETA that starts every waiting order at its origin
calculateETA_FromOrigin(ord, dr) ==
  IF dr.speed <= 0 THEN 0
  ELSE IF ord.status \in {OrderStatusPlaced, OrderStatusToPickUp}
    THEN FlightTime(HaversineFeet(dr.loc, ord.origin)
                    + HaversineFeet(ord.origin, ord.dest), dr.speed)
  ELSE IF ord.status = OrderStatusEnRoute
    THEN FlightTime(HaversineFeet(dr.loc, ord.dest), dr.speed)
  ELSE 0

\* calculateETA
calculateETA(ord, dr) ==
  IF dr.speed <= 0 THEN 0
  ELSE IF ord.status \in {OrderStatusPlaced, OrderStatusToPickUp}
    THEN LET start == IF ord.status = OrderStatusToPickUp /\ ord.pickup # NoLoc
                      THEN ord.pickup ELSE ord.origin
         IN FlightTime(HaversineFeet(dr.loc, start)
                       + HaversineFeet(start, ord.dest), dr.speed)
  ELSE IF ord.status = OrderStatusEnRoute
    THEN FlightTime(HaversineFeet(dr.loc, ord.dest), dr.speed)
  ELSE 0

\* DroneServer.GetAssignedOrder: the answer, and the ETA of a response
RpcGetAssignedOrder(s, p) ==
  LET d == resolveDrone(p.name)
      code == IF Gate(p, RequireDrone(p)) # "OK" THEN Gate(p, RequireDrone(p))
              ELSE IF d = NULL THEN "NotFound"
              ELSE IF drones[d].assignedJob = NULL THEN "FailedPrecondition"
              ELSE IF ~OrderExists(orders, drones[d].assignedJob) THEN "Internal"
              ELSE "OK"
  IN /\ Call
     /\ FreeSlot(s)
     /\ req' = [req EXCEPT ![s] =
                  [Done([Idle EXCEPT !.op = "GetAssignedOrder"], code)
                     EXCEPT !.who = p.name,
                            !.eta = IF code = "OK"
                                    THEN calculateETA(orders[drones[d].assignedJob],
                                                      drones[d])
                                    ELSE 0]]
     /\ UNCHANGED <<users, drones, orders>>

\* Server.SetOrder
RpcSetOrder(s, p, origin, dest) ==
  LET u == resolveCurrentUser(p)
      last == IF orders = <<>> THEN 1 ELSE orders[Len(orders)].placementAt
  IN IF Gate(p, RequireEndUserOrAdmin(p)) # "OK"
       THEN Answer(s, p, "SetOrder", Gate(p, RequireEndUserOrAdmin(p)))
     ELSE IF u = NULL THEN Answer(s, p, "SetOrder", "NotFound")
     ELSE /\ Call
          /\ FreeSlot(s)
          /\ Len(orders) < MaxOrders
          /\ \E now \in {last, last + 1} :
               orders' = CreateOrder(orders, u, origin, dest, now)
          /\ req' = [req EXCEPT ![s] =
                       [Done([Idle EXCEPT !.op = "SetOrder"], "OK")
                          EXCEPT !.who = p.name]]
          /\ UNCHANGED <<users, drones>>

\* Server.WithdrawOrder: the order id is checked before the principal
RpcWithdrawOrder(s, p, id) ==
  LET u == resolveCurrentUser(p)
  IN IF Interceptor(p) # "OK" THEN Answer(s, p, "WithdrawOrder", Interceptor(p))
     ELSE IF id = 0 THEN Answer(s, p, "WithdrawOrder", "InvalidArgument")
     ELSE IF RequireEndUserOrAdmin(p) # "OK"
       THEN Answer(s, p, "WithdrawOrder", RequireEndUserOrAdmin(p))
     ELSE IF u = NULL THEN Answer(s, p, "WithdrawOrder", "NotFound")
     ELSE StartWithdraw(s, u, id)

\* Server.ListOrders
RpcListOrders(s, p, pageSize, pageToken) ==
  LET u == resolveCurrentUser(p)
  IN IF Gate(p, RequireEndUserOrAdmin(p)) # "OK"
       THEN Answer(s, p, "ListOrders", Gate(p, RequireEndUserOrAdmin(p)))
     ELSE IF u = NULL THEN Answer(s, p, "ListOrders", "NotFound")
     ELSE ListOrders(s, u, pageSize, pageToken)

\* AdminServer.GetOrders, first page without filters: it reads only
RpcGetOrders(s, p) ==
  Answer(s, p, "GetOrders", Gate(p, RequireAdmin(p, users)))

\* AdminServer.GetDrones, first page without filters: it reads only
RpcGetDrones(s, p) ==
  Answer(s, p, "GetDrones", Gate(p, RequireAdmin(p, users)))

\* AdminServer.UpdateOrderLocation
RpcUpdateOrderLocation(s, p, id, origin, dest) ==
  IF Gate(p, RequireAdmin(p, users)) # "OK"
    THEN Answer(s, p, "UpdateOrderLocation", Gate(p, RequireAdmin(p, users)))
  ELSE IF id = 0 \/ origin = NoLoc \/ dest = NoLoc
    THEN Answer(s, p, "UpdateOrderLocation", "InvalidArgument")
  ELSE IF ~OrderExists(orders, id) THEN Answer(s, p, "UpdateOrderLocation", "NotFound")
  ELSE /\ Call
       /\ FreeSlot(s)
       /\ orders' = UpdateLocations(orders, id, origin, dest)
       /\ req' = [req EXCEPT ![s] =
                    [Done([Idle EXCEPT !.op = "UpdateOrderLocation"], "OK")
                       EXCEPT !.who = p.name]]
       /\ UNCHANGED <<users, drones>>

\* AdminServer.UpdateDroneStatus; st = "" is a request whose status is
\* DRONE_STATUS_UNSPECIFIED.  Drones.UpdateStatus, then Drones.GetByID, which
\* finds no row when the id is unknown
RpcUpdateDroneStatus(s, p, d, st) ==
  IF Gate(p, RequireAdmin(p, users)) # "OK"
    THEN Answer(s, p, "UpdateDroneStatus", Gate(p, RequireAdmin(p, users)))
  ELSE IF d = 0 THEN Answer(s, p, "UpdateDroneStatus", "InvalidArgument")
  ELSE IF st \notin {DroneStatusFixed, DroneStatusBroken}
    THEN Answer(s, p, "UpdateDroneStatus", "InvalidArgument")
  ELSE /\ Call
       /\ FreeSlot(s)
       /\ drones' = DroneUpdateStatus(drones, d, st)
       /\ req' = [req EXCEPT ![s] =
                    [Done([Idle EXCEPT !.op = "UpdateDroneStatus", !.d = d],
                          IF d \in DroneIds THEN "OK" ELSE "NotFound")
                       EXCEPT !.who = p.name]]
       /\ UNCHANGED <<users, orders>>

\* the administrative flow that sets a user's role
UpdateRoleByUsername(name, role) ==
  /\ users' = UpdateRole(users, name, role)
  /\ UNCHANGED <<drones, orders, req, calls>>

---------------------------------------------------------------------------
(* The system.                                                             *)

\* the response has been sent: the slot is free again
Return(s) ==
  /\ req[s].pc = "done"
  /\ req' = [req EXCEPT ![s] = Idle]
  /\ UNCHANGED <<users, drones, orders, calls>>

\* seeded fleet: every drone created with the status left out or given as
\* fixed; no order yet
Init ==
  /\ drones \in [DroneIds -> {DroneCreate(st) : st \in {"", DroneStatusFixed}}]
  /\ orders = <<>>
  /\ req = [s \in Slots |-> Idle]
  /\ calls = 0
  /\ users = SeededUsers

\* a handler is called
Begin(s) ==
  \/ \E p \in DronePrincipals : StartReserve(s, p)
  \/ \E p \in DronePrincipals : StartGrab(s, p)
  \/ \E p \in DronePrincipals, delivered \in BOOLEAN : StartComplete(s, p, delivered)
  \/ \E p \in DronePrincipals : StartMarkBroken(s, p)
  \/ \E u \in UserIds, id \in 0..MaxOrders : StartWithdraw(s, u, id)

\* the next store call of a handler in flight
Step(s) ==
  \/ ReserveFind(s)
  \/ ReserveAssign(s)
  \/ ReserveAppend(s)
  \/ GrabGet(s)
  \/ GrabSet(s)
  \/ CompleteGet(s)
  \/ CompleteSet(s)
  \/ CompleteUnassign(s)
  \/ BrokenGet(s)
  \/ BrokenStatus(s)
  \/ BrokenPickup(s)
  \/ BrokenUnassign(s)
  \/ BrokenBroken(s)
  \/ WithdrawSet(s)
  \/ Return(s)

\* a handler that is a single store write
Single ==
  \/ \E u \in Customers, rt \in Routes : SetOrder(u, rt[1], rt[2])
  \/ \E p \in DronePrincipals, loc \in Locs : Heartbeat(p, loc)
  \/ \E p \in DronePrincipals : GetAssignedOrder(p)
  \/ \E d \in DroneIds, st \in {DroneStatusFixed, DroneStatusBroken} :
       UpdateDroneStatus(d, st)
  \/ \E id \in 1..MaxOrders, rt \in AdminRoutes :
       UpdateOrderLocation(id, rt[1], rt[2])

\* handlers run concurrently: their store calls interleave freely
Next ==
  \/ \E s \in Slots : Begin(s)
  \/ \E s \in Slots : Step(s)
  \/ Single

Spec == Init /\ [][Next]_vars

\* handlers run one after the other: a handler is called only when no other
\* is in flight
NextSeq ==
  \/ AllIdle /\ \E s \in Slots : Begin(s)
  \/ \E s \in Slots : Step(s)
  \/ AllIdle /\ Single

SpecSeq == Init /\ [][NextSeq]_vars

---------------------------------------------------------------------------
(* Store writes that fail (a deadline, a database error): the row is left  *)
(* as it was and the handler sees the error.                               *)

\* Orders.UpdateStatus of the handoff fails: MarkBroken returns Internal
BrokenStatusFail(s) ==
  /\ req[s].pc = "brk_status"
  /\ req' = [req EXCEPT ![s] = Done(@, "Internal")]
  /\ UNCHANGED <<users, drones, orders, calls>>

\* a MarkBroken that goes on after a failed UpdatePickupLocation
BrokenPickupFail_Ignored(s) ==
  /\ req[s].pc = "brk_pickup"
  /\ req' = [req EXCEPT ![s].pc = "brk_unassign", ![s].flag = TRUE]
  /\ UNCHANGED <<users, drones, orders, calls>>

\* Orders.UpdatePickupLocation of the handoff fails: MarkBroken returns
\* Internal
BrokenPickupFail(s) ==
  /\ req[s].pc = "brk_pickup"
  /\ req' = [req EXCEPT ![s] = Done(@, "Internal")]
  /\ UNCHANGED <<users, drones, orders, calls>>

\* Drones.UnassignJob fails: MarkBroken discards the error and goes on
BrokenUnassignFail(s) ==
  /\ req[s].pc = "brk_unassign"
  /\ req' = [req EXCEPT ![s].pc = "brk_broken"]
  /\ UNCHANGED <<users, drones, orders, calls>>

\* Drones.UpdateStatus(broken) fails: MarkBroken returns Internal
BrokenBrokenFail(s) ==
  /\ req[s].pc = "brk_broken"
  /\ req' = [req EXCEPT ![s] = Done(@, "Internal")]
  /\ UNCHANGED <<users, drones, orders, calls>>

StepFail(s) ==
  \/ BrokenStatusFail(s)
  \/ BrokenPickupFail(s)
  \/ BrokenUnassignFail(s)
  \/ BrokenBrokenFail(s)

\* handlers run one after the other, and the writes of MarkBroken may fail
NextFail ==
  \/ AllIdle /\ \E s \in Slots : Begin(s)
  \/ \E s \in Slots : Step(s)
  \/ \E s \in Slots : StepFail(s)
  \/ AllIdle /\ Single

SpecFail == Init /\ [][NextFail]_vars

\* Orders.AppendDronePath fails: ReserveOrder returns Internal
ReserveAppendFail(s) ==
  /\ req[s].pc = "rsv_append"
  /\ req' = [req EXCEPT ![s] = Done(@, "Internal")]
  /\ UNCHANGED <<users, drones, orders, calls>>

\* handlers run one after the other, and the path write of ReserveOrder may
\* fail
NextReserveFail ==
  \/ AllIdle /\ \E s \in Slots : Begin(s)
  \/ \E s \in Slots : Step(s)
  \/ \E s \in Slots : ReserveAppendFail(s)
  \/ AllIdle /\ Single

SpecReserveFail == Init /\ [][NextReserveFail]_vars

---------------------------------------------------------------------------
(* FindNextAvailableForReservation on the tables the store can hold.  The  *)
(* tables are drawn from bounded sets that respect what the store and the  *)
(* handlers maintain: ids 1..n, placement dates that do not decrease with  *)
(* the id, paths built by AppendDronePath from distinct drones, and at     *)
(* most one drone per order.  ReserveOrder then applies the query.         *)

\* the two statuses the query selects and two of those it rejects
FindStatuses ==
  {OrderStatusPlaced, OrderStatusToPickUp, OrderStatusEnRoute,
   OrderStatusDelivered}

\* the paths AppendDronePath builds from distinct drones
FindPaths ==
  {<<>>}
    \cup {FormatInt(a) : a \in DroneIds}
    \cup {FormatInt(a) \o <<",">> \o FormatInt(b) :
            <<a, b>> \in {ab \in DroneIds \X DroneIds : ab[1] # ab[2]}}

FindRows ==
  [status : FindStatuses, origin : {0}, dest : {300}, pickup : {NoLoc},
   dronePath : FindPaths, submittedBy : Customers,
   placementAt : 1..MaxOrders]

FindOrders ==
  {ords \in UNION {[1..n -> FindRows] : n \in 0..MaxOrders} :
     /\ Len(ords) > 0 => ords[1].placementAt = 1
     /\ \A i \in 1..(Len(ords) - 1) :
          ords[i + 1].placementAt - ords[i].placementAt \in {0, 1}}

InitFind ==
  /\ orders \in FindOrders
  /\ drones \in [DroneIds -> [status : {DroneStatusFixed},
                              assignedJob : 0..MaxOrders, loc : {0},
                              speed : {0}]]
  /\ \A d \in DroneIds : drones[d].assignedJob \in {NULL} \cup OrderIds
  /\ \A d1 \in DroneIds, d2 \in DroneIds :
       (d1 # d2 /\ drones[d1].assignedJob # NULL)
         => drones[d1].assignedJob # drones[d2].assignedJob
  /\ req = [s \in Slots |-> Idle]
  /\ calls = 0
  /\ users = SeededUsers

NextFind ==
  \/ AllIdle /\ \E s \in Slots, p \in DronePrincipals : StartReserve(s, p)
  \/ \E s \in Slots : ReserveFind(s)

SpecFind == InitFind /\ [][NextFind]_vars

---------------------------------------------------------------------------
(* The user service alone: users place, withdraw and list orders, the      *)
(* calls interleaved.  User 2 places no order: the caller who is not the   *)
(* submitter (another end user, or an admin principal, which the handlers  *)
(* resolve to its users row in the same way).                              *)

NextUser ==
  \/ \E u \in Customers, rt \in Routes : SetOrder(u, rt[1], rt[2])
  \/ \E s \in Slots, u \in UserIds, id \in 0..MaxOrders : StartWithdraw(s, u, id)
  \/ \E s \in Slots : WithdrawSet(s)
  \/ \E s \in Slots, u \in UserIds, pageSize \in {0, 1} :
       ListOrders(s, u, pageSize, <<>>)
  \/ \E s \in Slots : Return(s)

SpecUser == Init /\ [][NextUser]_vars

---------------------------------------------------------------------------
(* The three services behind the principal gate, the calls one after the   *)
(* other.  Roles change by the administrative flow in between.             *)

\* a drone, user or admin RPC is called by principal p
RpcCall(s, p) ==
  \/ RpcReserveOrder(s, p)
  \/ RpcGrabOrder(s, p)
  \/ \E delivered \in BOOLEAN : RpcCompleteOrder(s, p, delivered)
  \/ RpcMarkBroken(s, p)
  \/ \E loc \in Locs \cup {NoLoc} : RpcHeartbeat(s, p, loc)
  \/ RpcGetAssignedOrder(s, p)
  \/ \E rt \in Routes : RpcSetOrder(s, p, rt[1], rt[2])
  \/ \E id \in 0..MaxOrders : RpcWithdrawOrder(s, p, id)
  \/ RpcListOrders(s, p, 0, <<>>)
  \/ RpcGetOrders(s, p)
  \/ RpcGetDrones(s, p)
  \/ \E id \in 0..MaxOrders, rt \in AdminRoutes :
       RpcUpdateOrderLocation(s, p, id, rt[1], rt[2])
  \/ \E d \in DroneIds \cup {0}, st \in {DroneStatusFixed, DroneStatusBroken} :
       RpcUpdateDroneStatus(s, p, d, st)

NextGate ==
  \/ /\ AllIdle
     /\ calls < MaxGateCalls
     /\ \E s \in Slots, p \in Principals : RpcCall(s, p)
  \/ \E s \in Slots : Step(s)
  \/ \E role \in Roles : UpdateRoleByUsername("alice", role)

SpecGate == Init /\ [][NextGate]_vars

---------------------------------------------------------------------------
(* Listing page by page: the orders table holds up to MaxListed orders of  *)
(* the two users, placed in the seconds 9 and 10 (one and two digits in    *)
(* the cursor), and stays as it is.  A client calls ListOrders with no     *)
(* token or with a token a response gave it, for any page size, or with a  *)
(* token of its own making, for pages of one order.                        *)

ListedRows ==
  [status : {OrderStatusPlaced}, origin : {0}, dest : {300}, pickup : {NoLoc},
   dronePath : {<<>>}, submittedBy : UserIds, placementAt : {9, 10}]

ListedOrders ==
  {ords \in UNION {[1..n -> ListedRows] : n \in 0..MaxListed} :
     \A i \in 1..(Len(ords) - 1) : ords[i + 1].placementAt >= ords[i].placementAt}

\* page sizes a client asks for: none (0), small ones, one above the cap
PageSizes == {0, 1, 2, maxPageSize + 1}

\* tokens no response gave out: "MXw=" (padded), "MXwyM" (a character too
\* many), "!", "MTI" (the text 12), "MXw" (the text 1|), "MXwyfDM" (the
\* text 1|2|3), and "MXwy" (the text 1|2) followed by a line feed
MadeUpTokens ==
  {<<"M", "X", "w", "=">>, <<"M", "X", "w", "y", "M">>, <<"!">>,
   <<"M", "T", "I">>, <<"M", "X", "w">>, <<"M", "X", "w", "y", "f", "D", "M">>,
   <<"M", "X", "w", "y", "\n">>}

InitList ==
  /\ orders \in ListedOrders
  /\ drones = [d \in DroneIds |-> DroneCreate("")]
  /\ req = [s \in Slots |-> Idle]
  /\ calls = 0
  /\ users = SeededUsers

NextList ==
  \/ \E s \in Slots, u \in UserIds, pageSize \in PageSizes :
       \E pageToken \in {<<>>} \cup {req[t].next : t \in Slots}
                          \cup (IF pageSize = 1 THEN MadeUpTokens ELSE {}) :
         ListOrders(s, u, pageSize, pageToken)
  \/ \E s \in Slots : Return(s)

SpecList == InitList /\ [][NextList]_vars

---------------------------------------------------------------------------
(* The delivery cycle.  The tables hold one or two orders, placed or       *)
(* handed off, with the drones that carried them in the path; the drones   *)
(* are unassigned, fixed or broken, and stay as they are: no order is      *)
(* placed or withdrawn, no drone marked broken.  A fixed drone makes one   *)
(* call at a time: ReserveOrder while it holds nothing, Heartbeat to the   *)
(* pickup target and GrabOrder while its order waits, Heartbeat to the     *)
(* destination and CompleteOrder afterwards.  Calls are not counted: the   *)
(* drones go on for ever.                                                  *)

LiveRows ==
  [status : {OrderStatusPlaced}, origin : {0}, dest : {300}, pickup : {NoLoc},
   dronePath : {<<>>} \cup {FormatInt(d) : d \in DroneIds},
   submittedBy : Customers, placementAt : {1}]
    \cup
  [status : {OrderStatusToPickUp}, origin : {0}, dest : {300}, pickup : {300},
   dronePath : FindPaths \ {<<>>}, submittedBy : Customers, placementAt : {1}]

LiveOrders == [{1} -> LiveRows] \cup [{1, 2} -> LiveRows]

InitLive ==
  /\ orders \in LiveOrders
  /\ drones \in [DroneIds -> [status : {DroneStatusFixed, DroneStatusBroken},
                              assignedJob : {NULL}, loc : Locs,
                              speed : {0}]]
  /\ req = [s \in Slots |-> Idle]
  /\ calls = 0
  /\ users = SeededUsers

\* drone d has no call in flight
NoCall(d) == \A s \in Slots : req[s].pc = "idle" \/ req[s].d # d

\* where drone d goes with the order it holds: the pickup target while the
\* order waits to be grabbed, the destination afterwards
LiveGoal(d) ==
  LET o == orders[drones[d].assignedJob]
  IN IF o.status \in {OrderStatusPlaced, OrderStatusToPickUp} THEN GrabTarget(o)
     ELSE o.dest

LiveReserve(d) ==
  /\ drones[d].status = DroneStatusFixed /\ NoCall(d)
  /\ drones[d].assignedJob = NULL
  /\ \E s \in Slots : ReserveOrder(s, DroneSerial[d])
  /\ UNCHANGED calls

LiveHeartbeat(d) ==
  /\ drones[d].status = DroneStatusFixed /\ NoCall(d)
  /\ drones[d].assignedJob # NULL
  /\ drones[d].loc # LiveGoal(d)
  /\ HeartbeatWrite(DroneSerial[d], LiveGoal(d))
  /\ UNCHANGED calls

LiveGrab(d) ==
  /\ drones[d].status = DroneStatusFixed /\ NoCall(d)
  /\ drones[d].assignedJob # NULL
  /\ orders[drones[d].assignedJob].status \in {OrderStatusPlaced, OrderStatusToPickUp}
  /\ drones[d].loc = LiveGoal(d)
  /\ \E s \in Slots : GrabOrder(s, DroneSerial[d])
  /\ UNCHANGED calls

LiveComplete(d) ==
  /\ drones[d].status = DroneStatusFixed /\ NoCall(d)
  /\ drones[d].assignedJob # NULL
  /\ orders[drones[d].assignedJob].status \notin {OrderStatusPlaced, OrderStatusToPickUp}
  /\ drones[d].loc = LiveGoal(d)
  /\ \E s \in Slots, delivered \in BOOLEAN : CompleteOrder(s, DroneSerial[d], delivered)
  /\ UNCHANGED calls

\* the next call of drone d
LiveCall(d) ==
  LiveReserve(d) \/ LiveHeartbeat(d) \/ LiveGrab(d) \/ LiveComplete(d)

\* the next store call of the handler in slot s, or its return
LiveStep(s) ==
  \/ ReserveFind(s)
  \/ ReserveAssign(s)
  \/ ReserveAppend(s)
  \/ GrabGet(s)
  \/ GrabSet(s)
  \/ CompleteGet(s)
  \/ CompleteSet(s)
  \/ CompleteUnassign(s)
  \/ Return(s)

NextLive ==
  \/ \E d \in DroneIds : LiveCall(d)
  \/ \E s \in Slots : LiveStep(s)

\* the server runs every handler in flight to its end
SpecLive ==
  InitLive /\ [][NextLive]_vars /\ \A s \in Slots : WF_vars(LiveStep(s))

---------------------------------------------------------------------------
(* The drone service alone, behind the principal gate: one order has been  *)
(* placed, and drone principals of every name call the drone RPCs, one     *)
(* call after the other.                                                   *)

DroneCallers == {[name |-> n, kind |-> "drone"] : n \in DronePrincipals}

InitResolve ==
  /\ drones \in [DroneIds -> {DroneCreate(st) : st \in {"", DroneStatusFixed}}]
  /\ orders = CreateOrder(<<>>, 1, 0, 300, 1)
  /\ req = [s \in Slots |-> Idle]
  /\ calls = 0
  /\ users = SeededUsers

\* a drone RPC is called by principal p
DroneRpc(s, p) ==
  \/ RpcReserveOrder(s, p)
  \/ RpcGrabOrder(s, p)
  \/ \E delivered \in BOOLEAN : RpcCompleteOrder(s, p, delivered)
  \/ RpcMarkBroken(s, p)
  \/ \E loc \in Locs \cup {NoLoc} : RpcHeartbeat(s, p, loc)
  \/ RpcGetAssignedOrder(s, p)

\* the next store call of a drone handler in flight, or its return
DroneStep(s) ==
  \/ LiveStep(s)
  \/ BrokenGet(s)
  \/ BrokenStatus(s)
  \/ BrokenPickup(s)
  \/ BrokenUnassign(s)
  \/ BrokenBroken(s)

NextResolve ==
  \/ /\ AllIdle
     /\ calls < MaxGateCalls
     /\ \E s \in Slots, p \in DroneCallers : DroneRpc(s, p)
  \/ \E s \in Slots : DroneStep(s)

SpecResolve == InitResolve /\ [][NextResolve]_vars

---------------------------------------------------------------------------
(* The drone service and the two writing RPCs of the admin service: the    *)
(* drones work on the one order while admins move it and set the status    *)
(* of drones, one call after the other.                                    *)

\* root is an admin by its persisted role, mallory only by the kind claimed
AdminCallers ==
  {[name |-> "root", kind |-> "admin"], [name |-> "mallory", kind |-> "admin"]}

\* UpdateOrderLocation or UpdateDroneStatus is called by principal p: for
\* an order id given or not (0), of a row or of none, with or without the
\* origin; for a drone id given or not (0), of a row or of none (7), with
\* the status fixed, broken or unspecified
AdminRpc(s, p) ==
  \/ \E id \in 0..MaxOrders, rt \in AdminRoutes \cup {<<NoLoc, 300>>} :
       RpcUpdateOrderLocation(s, p, id, rt[1], rt[2])
  \/ \E d \in DroneIds \cup {0, 7},
        st \in {"", DroneStatusFixed, DroneStatusBroken} :
       RpcUpdateDroneStatus(s, p, d, st)

NextAdmin ==
  \/ /\ AllIdle
     /\ calls < MaxGateCalls
     /\ \E s \in Slots, p \in DroneCallers : DroneRpc(s, p)
  \/ /\ AllIdle
     /\ calls < MaxGateCalls
     /\ \E s \in Slots, p \in AdminCallers : AdminRpc(s, p)
  \/ \E s \in Slots : DroneStep(s)

SpecAdmin == InitResolve /\ [][NextAdmin]_vars

---------------------------------------------------------------------------
(* A drone asks for its order: drone 1 holds order 1, from 0 to 300, or    *)
(* nothing.  The order is placed (reserved), to pick up (handed off by     *)
(* drone 12 at 300 or at 900, or with the pickup location never written),  *)
(* en route, or already delivered, failed or withdrawn while the drone     *)
(* still holds it.  The drones send heartbeats with a location and a speed *)
(* and call GetAssignedOrder, one call after the other.                    *)

\* speed_mph of a heartbeat: any number, 0 when left out
Speeds == {-1, 0, 1, 2}

ETARows ==
  [status : {OrderStatusPlaced, OrderStatusEnRoute} \cup TerminalStatuses,
   origin : {0}, dest : {300}, pickup : {NoLoc},
   dronePath : {FormatInt(1)}, submittedBy : {1}, placementAt : {1}]
    \cup
  [status : {OrderStatusToPickUp}, origin : {0}, dest : {300},
   pickup : {NoLoc, 300, 900},
   dronePath : {FormatInt(12) \o <<",">> \o FormatInt(1)},
   submittedBy : {1}, placementAt : {1}]
    \cup
  [status : {OrderStatusEnRoute}, origin : {0}, dest : {300}, pickup : {900},
   dronePath : {FormatInt(12) \o <<",">> \o FormatInt(1)},
   submittedBy : {1}, placementAt : {1}]

InitETA ==
  /\ orders \in [{1} -> ETARows]
  /\ drones \in [DroneIds -> [status : {DroneStatusFixed},
                              assignedJob : {NULL, 1}, loc : Locs, speed : {0}]]
  /\ drones[12].assignedJob = NULL
  /\ drones[12].loc = 0
  /\ req = [s \in Slots |-> Idle]
  /\ calls = 0
  /\ users = SeededUsers

NextETA ==
  \/ /\ AllIdle
     /\ calls < MaxGateCalls
     /\ \E s \in Slots, p \in DroneCallers, loc \in Locs \cup {NoLoc},
           speed \in Speeds :
          RpcHeartbeatSpeed(s, p, loc, speed)
  \/ /\ AllIdle
     /\ calls < MaxGateCalls
     /\ \E s \in Slots, p \in DroneCallers : RpcGetAssignedOrder(s, p)
  \/ \E s \in Slots : Return(s)

SpecETA == InitETA /\ [][NextETA]_vars

---------------------------------------------------------------------------
(* After a handoff: the tables hold one or two orders, placed (reserved    *)
(* by at most one drone before) or handed off (to pick up, with the        *)
(* recorded pickup location, or none when its write failed, and the        *)
(* drones that carried it in the path), and the drones are unassigned,     *)
(* fixed or broken, at any location.                                       *)
(* Drones then call ReserveOrder and GrabOrder, one call at a time.        *)

HandoffRows ==
  [status : {OrderStatusPlaced}, origin : {0}, dest : {300}, pickup : {NoLoc},
   dronePath : {p \in FindPaths : Len(p) <= 2}, submittedBy : Customers,
   placementAt : {1, 2}]
    \cup
  [status : {OrderStatusToPickUp}, origin : {0}, dest : {300},
   pickup : Locs \cup {NoLoc},
   dronePath : FindPaths \ {<<>>}, submittedBy : Customers,
   placementAt : {1, 2}]

HandoffOrders ==
  {ords \in [{1} -> HandoffRows] \cup [{1, 2} -> HandoffRows] :
     /\ ords[1].placementAt = 1
     /\ \A i \in 1..(Len(ords) - 1) :
          ords[i + 1].placementAt >= ords[i].placementAt}

InitHandoff ==
  /\ orders \in HandoffOrders
  /\ drones \in [DroneIds -> [status : {DroneStatusFixed, DroneStatusBroken},
                              assignedJob : {NULL}, loc : Locs,
                              speed : {0}]]
  /\ req = [s \in Slots |-> Idle]
  /\ calls = 0
  /\ users = SeededUsers

NextHandoff ==
  \/ AllIdle /\ \E s \in Slots, p \in DronePrincipals : StartReserve(s, p)
  \/ AllIdle /\ \E s \in Slots, p \in DronePrincipals : StartGrab(s, p)
  \/ \E s \in Slots : ReserveFind(s)
  \/ \E s \in Slots : ReserveAssign(s)
  \/ \E s \in Slots : ReserveAppend(s)
  \/ \E s \in Slots : GrabGet(s)
  \/ \E s \in Slots : GrabSet(s)
  \/ \E s \in Slots : Return(s)

SpecHandoff == InitHandoff /\ [][NextHandoff]_vars

---------------------------------------------------------------------------
(* C1.  At most one drone per order.                                       *)

\* C1: in every reachable state, under any interleaving of the handlers'
\* store calls, no two distinct drones have the same order as assignedJob.
C1_OneDronePerOrder ==
  \A d1 \in DroneIds, d2 \in DroneIds :
    (d1 # d2 /\ drones[d1].assignedJob # NULL)
      => drones[d1].assignedJob # drones[d2].assignedJob

\* both drones hold an order at the same time
C1_Witness ==
  /\ drones[1].assignedJob # NULL
  /\ drones[12].assignedJob # NULL

---------------------------------------------------------------------------
(* C2.  The loser of the reservation race.                                 *)

\* slot s is about to call AssignJob for an order another drone holds
C2_RaceLost(s) ==
  /\ req[s].pc = "rsv_assign"
  /\ \E d2 \in DroneIds :
       d2 # req[s].d /\ drones[d2].assignedJob = req[s].ord

\* C2: when ReserveOrder attempts AssignJob for a candidate that another
\* drone holds by then, the call returns Aborted without a further store call
\* (no retry), its drone's row is unchanged (it stays unassigned) and no
\* dronePath changes (the drone id is not appended).
C2_RaceLoserAborts ==
  [][\A s \in Slots :
       (C2_RaceLost(s) /\ req'[s] # req[s])
         => /\ req'[s].pc = "done"
            /\ req'[s].res = "Aborted"
            /\ drones' = drones
            /\ orders' = orders]_vars

\* a ReserveOrder has returned Aborted: its drone is unassigned and is not in
\* the path of the order the other drone holds
C2_Witness ==
  \E s \in Slots, d2 \in DroneIds :
    /\ req[s].pc = "done" /\ req[s].op = "ReserveOrder" /\ req[s].res = "Aborted"
    /\ d2 # req[s].d
    /\ drones[req[s].d].assignedJob = NULL
    /\ drones[d2].assignedJob # NULL
    /\ ~IsDroneInPath(orders, drones[d2].assignedJob, req[s].d)

---------------------------------------------------------------------------
(* C3, C4, C5.  The order state machine.                                   *)

\* C3: terminal statuses are absorbing: once an order is delivered, failed or
\* withdrawn, no step of any handler changes its status.
C3_TerminalAbsorbing ==
  [][\A o \in OrderIds :
       orders[o].status \in TerminalStatuses
         => orders'[o].status = orders[o].status]_vars

\* C4: an order's status changes to delivered or failed only from en route.
C4_CompleteOnlyFromEnRoute ==
  [][\A o \in OrderIds :
       (/\ orders'[o].status \in {OrderStatusDelivered, OrderStatusFailed}
        /\ orders'[o].status # orders[o].status)
         => orders[o].status = OrderStatusEnRoute]_vars

\* C5: an order's status changes to withdrawn only from placed.
C5_WithdrawOnlyFromPlaced ==
  [][\A o \in OrderIds :
       (/\ orders'[o].status = OrderStatusWithdrawn
        /\ orders[o].status # OrderStatusWithdrawn)
         => orders[o].status = OrderStatusPlaced]_vars

---------------------------------------------------------------------------
(* C6.  The selection policy.                                              *)

\* the drone ids recorded in order o's dronePath, in order
PathIds(ords, o) ==
  IF ords[o].dronePath = <<>> THEN <<>> ELSE Split(ords[o].dronePath)

\* the orders drone d may reserve: assigned to no drone, placed or to pick
\* up, d not among the ids of the path
C6_Candidates(d) ==
  {o \in OrderIds :
     /\ \A d2 \in DroneIds : drones[d2].assignedJob # o
     /\ orders[o].status \in {OrderStatusPlaced, OrderStatusToPickUp}
     /\ \A i \in 1..Len(PathIds(orders, o)) :
          PathIds(orders, o)[i] # FormatInt(d)}

\* to pick up before placed, then the older placement, then the lower id
C6_Before(a, b) ==
  \/ orders[a].status = OrderStatusToPickUp /\ orders[b].status = OrderStatusPlaced
  \/ /\ orders[a].status = orders[b].status
     /\ \/ orders[a].placementAt < orders[b].placementAt
        \/ orders[a].placementAt = orders[b].placementAt /\ a < b

\* C6: the query of ReserveOrder for drone d returns the minimum of d's
\* candidates (to pick up first, then placement date, then id), returns no
\* order exactly when there is no candidate, and changes no table.
C6_FindNextIsMinimum ==
  [][\A s \in Slots :
       (req[s].pc = "rsv_find" /\ req'[s] # req[s])
         => LET S == C6_Candidates(req[s].d)
            IN /\ drones' = drones
               /\ orders' = orders
               /\ IF S = {}
                  THEN req'[s].pc = "done" /\ req'[s].res = "FailedPrecondition"
                  ELSE /\ req'[s].pc = "rsv_assign"
                       /\ req'[s].ord \in S
                       /\ \A o \in S \ {req'[s].ord} :
                            C6_Before(req'[s].ord, o)]_vars

\* drone 1 was given a handed-off order whose path holds drone 12, ahead of
\* an older placed order it could also have reserved
C6_Witness ==
  \E s \in Slots, o \in OrderIds :
    /\ req[s].pc = "rsv_assign" /\ req[s].d = 1
    /\ orders[req[s].ord].status = OrderStatusToPickUp
    /\ orders[req[s].ord].dronePath = FormatInt(12)
    /\ o \in C6_Candidates(1)
    /\ orders[o].status = OrderStatusPlaced
    /\ orders[o].placementAt < orders[req[s].ord].placementAt

---------------------------------------------------------------------------
(* C7, C8, C9.  The drone path.                                            *)

IsPrefix(a, b) == Len(a) <= Len(b) /\ SubSeq(b, 1, Len(a)) = a

\* C7: anti-repeat.  A ReserveOrder whose AssignJob has succeeded was not
\* assigned an order that an earlier, already returned successful ReserveOrder
\* of the same drone had been assigned (prior: the orders whose path held the
\* drone when this call started), whatever happened in between: MarkBroken,
\* the admin fixing the drone, handoffs.
C7_AntiRepeat ==
  \A s \in Slots :
    req[s].pc = "rsv_append" => req[s].ord \notin req[s].prior

\* a drone that served order o before calls ReserveOrder again while o is
\* unassigned and reservable for other drones
C7_Witness ==
  \E s \in Slots, o \in OrderIds :
    /\ req[s].pc = "rsv_find"
    /\ o \in req[s].prior
    /\ orders[o].status \in {OrderStatusPlaced, OrderStatusToPickUp}
    /\ \A d \in DroneIds : drones[d].assignedJob # o

\* C8: no drone id occurs twice in the dronePath of an order.
C8_PathNoDuplicates ==
  \A o \in OrderIds :
    LET ids == PathIds(orders, o)
    IN \A i \in 1..Len(ids), j \in 1..Len(ids) :
         i # j => ids[i] # ids[j]

\* C9: dronePath is append-only: on every step, each order's list of drone
\* ids before the step is a prefix of its list after the step.
C9_PathAppendOnly ==
  [][\A o \in OrderIds :
       IsPrefix(PathIds(orders, o), PathIds(orders', o))]_vars

\* an order that two drones have reserved, one after the other
C9_Witness ==
  \E o \in OrderIds :
    LET ids == PathIds(orders, o)
    IN Len(ids) = 2 /\ ids[1] # ids[2]

---------------------------------------------------------------------------
(* C10.  The handoff of MarkBroken.                                        *)

\* C10: when a MarkBroken that found its order en route returns (all its
\* writes done, no other handler in between), the order is to pick up, its
\* pickup location is the drone location read at the call, and the drone is
\* unassigned and broken.
C10_MarkBrokenHandoff ==
  [][\A s \in Slots :
       (req[s].pc = "brk_broken" /\ req[s].flag /\ req'[s].pc = "done")
         => /\ orders'[req[s].ord].status = OrderStatusToPickUp
            /\ orders'[req[s].ord].pickup = req[s].loc
            /\ drones'[req[s].d].assignedJob = NULL
            /\ drones'[req[s].d].status = DroneStatusBroken]_vars

\* a returned MarkBroken has handed an order off away from its origin
C10_Witness ==
  \E s \in Slots, o \in OrderIds :
    /\ req[s].pc = "done" /\ req[s].op = "MarkBroken" /\ req[s].res = "OK"
    /\ orders[o].status = OrderStatusToPickUp
    /\ orders[o].pickup = drones[req[s].d].loc
    /\ orders[o].pickup # orders[o].origin
    /\ IsDroneInPath(orders, o, req[s].d)
    /\ drones[req[s].d].assignedJob = NULL
    /\ drones[req[s].d].status = DroneStatusBroken

---------------------------------------------------------------------------
(* C11, C12, C13.  MarkBroken without a handoff, and its failures.         *)

\* C11: a MarkBroken called by a drone with no assignedJob, or whose
\* assigned order is not en route at the call, changes no order's status or
\* pickup location, and when it returns the drone is unassigned and broken.
C11_MarkBrokenNoHandoff ==
  [][\A s \in Slots :
       (/\ req[s].op = "MarkBroken" /\ req[s].pc # "done"
        /\ req[s].seen # OrderStatusEnRoute
        /\ req'[s] # req[s])
         => /\ \A o \in OrderIds :
                 /\ orders'[o].status = orders[o].status
                 /\ orders'[o].pickup = orders[o].pickup
            /\ req'[s].pc = "done"
                 => /\ req'[s].res = "OK"
                    /\ drones'[req[s].d].assignedJob = NULL
                    /\ drones'[req[s].d].status = DroneStatusBroken]_vars

\* a drone that had reserved but not grabbed an order has returned from
\* MarkBroken: the order is still placed, with no pickup location
C11_Witness ==
  \E s \in Slots, o \in OrderIds :
    /\ req[s].pc = "done" /\ req[s].op = "MarkBroken" /\ req[s].res = "OK"
    /\ IsDroneInPath(orders, o, req[s].d)
    /\ orders[o].status = OrderStatusPlaced
    /\ orders[o].pickup = NoLoc
    /\ \A d \in DroneIds : drones[d].assignedJob # o
    /\ drones[req[s].d].status = DroneStatusBroken

\* C12: in every reachable state a broken drone has no assignedJob.
C12_BrokenUnassigned ==
  \A d \in DroneIds :
    drones[d].status = DroneStatusBroken => drones[d].assignedJob = NULL

\* slot s has attempted a write of the handoff and the row does not hold the
\* value written
C13_HandoffWriteFailed(s) ==
  \/ /\ req[s].pc = "brk_status" /\ req'[s].pc # "brk_status"
     /\ orders'[req[s].ord].status # OrderStatusToPickUp
  \/ /\ req[s].pc = "brk_pickup" /\ req'[s].pc # "brk_pickup"
     /\ orders'[req[s].ord].pickup # req[s].loc

\* C13: when the order-status write or the pickup-location write of the
\* handoff fails, MarkBroken returns an error at once and no drone row
\* changes: the drone is not marked broken.
C13_FailedHandoffKeepsDrone ==
  [][\A s \in Slots :
       C13_HandoffWriteFailed(s)
         => /\ req'[s].pc = "done"
            /\ req'[s].res = "Internal"
            /\ drones' = drones]_vars

\* a MarkBroken has returned Internal after the status write succeeded and
\* the pickup write failed: the drone is still fixed and assigned
C13_Witness ==
  \E s \in Slots, o \in OrderIds :
    /\ req[s].pc = "done" /\ req[s].op = "MarkBroken" /\ req[s].res = "Internal"
    /\ drones[req[s].d].assignedJob = o
    /\ drones[req[s].d].status = DroneStatusFixed
    /\ orders[o].status = OrderStatusToPickUp
    /\ orders[o].pickup = NoLoc

---------------------------------------------------------------------------
(* C14, C15.  GrabOrder and CompleteOrder, one call at a time.             *)

\* a and b are at most 100 ft apart
C14_Within100(a, b) == a - b <= 100 /\ b - a <= 100

\* drone d holds an order that is placed or to pick up and is within 100 ft
\* of its pickup target (the recorded pickup of a handed-off order, else the
\* origin)
C14_MayGrab(d) ==
  /\ drones[d].assignedJob # NULL
  /\ LET o == orders[drones[d].assignedJob]
     IN /\ o.status \in {OrderStatusPlaced, OrderStatusToPickUp}
        /\ C14_Within100(drones[d].loc,
                         IF o.status = OrderStatusToPickUp /\ o.pickup # NoLoc
                         THEN o.pickup ELSE o.origin)

\* C14: a GrabOrder of a known drone writes nothing before it returns; it
\* returns OK having set the drone's order to en route (and nothing else)
\* when the drone holds an order that is placed or to pick up and is within
\* 100 ft of the pickup target, and in every other case it returns
\* FailedPrecondition and changes no order and no drone.
C14_GrabOrder ==
  [][\A s \in Slots :
       (req'[s].op = "GrabOrder" /\ req'[s].d # NULL /\ req'[s] # req[s])
         => LET d == req'[s].d
                j == drones[d].assignedJob
            IN /\ drones' = drones
               /\ req'[s].pc # "done" => orders' = orders
               /\ req'[s].pc = "done" =>
                    IF C14_MayGrab(d)
                    THEN /\ req'[s].res = "OK"
                         /\ orders' = [orders EXCEPT ![j].status = OrderStatusEnRoute]
                    ELSE /\ req'[s].res = "FailedPrecondition"
                         /\ orders' = orders]_vars

\* a second GrabOrder of an order that is already en route was refused
C14_Witness ==
  \E s \in Slots :
    /\ req[s].pc = "done" /\ req[s].op = "GrabOrder"
    /\ req[s].res = "FailedPrecondition"
    /\ drones[req[s].d].assignedJob # NULL
    /\ orders[drones[req[s].d].assignedJob].status = OrderStatusEnRoute
    /\ drones[req[s].d].loc = orders[drones[req[s].d].assignedJob].origin

\* drone d holds an order and is within 100 ft of its destination
C15_MayComplete(d) ==
  /\ drones[d].assignedJob # NULL
  /\ C14_Within100(drones[d].loc, orders[drones[d].assignedJob].dest)

\* C15: a CompleteOrder of a known drone that holds an order and is within
\* 100 ft of its destination first sets the order to delivered (delivered =
\* true) or failed, then clears the drone's assignedJob and returns OK,
\* writing nothing else; in every other case it returns FailedPrecondition
\* and no step of it changes an order or a drone.
C15_CompleteOrder ==
  [][\A s \in Slots :
       (req'[s].op = "CompleteOrder" /\ req'[s].d # NULL /\ req'[s] # req[s])
         => LET d == req'[s].d
                j == drones[d].assignedJob
                final == IF req[s].flag THEN OrderStatusDelivered
                         ELSE OrderStatusFailed
            IN IF C15_MayComplete(d)
               THEN IF req'[s].pc = "done"
                    THEN /\ req'[s].res = "OK"
                         /\ orders[j].status = final
                         /\ orders' = orders
                         /\ drones' = [drones EXCEPT ![d].assignedJob = NULL]
                    ELSE /\ drones' = drones
                         /\ \/ orders' = orders
                            \/ orders' = [orders EXCEPT ![j].status = final]
               ELSE /\ req'[s].pc = "done" => req'[s].res = "FailedPrecondition"
                    /\ drones' = drones
                    /\ orders' = orders]_vars

\* a CompleteOrder(delivered = false) has returned OK: the order is failed
\* and the drone, at the destination, is unassigned
C15_Witness ==
  \E s \in Slots, o \in OrderIds :
    /\ req[s].pc = "done" /\ req[s].op = "CompleteOrder" /\ req[s].res = "OK"
    /\ orders[o].status = OrderStatusFailed
    /\ IsDroneInPath(orders, o, req[s].d)
    /\ drones[req[s].d].assignedJob = NULL
    /\ drones[req[s].d].loc = orders[o].dest

---------------------------------------------------------------------------
(* C16, C17.  ReserveOrder: refusals and frame.                            *)

\* C16: a ReserveOrder of a known drone that is broken or already has an
\* assignedJob when its row is read, or whose query finds no candidate,
\* returns FailedPrecondition at that step; that step and every step of a
\* ReserveOrder before its AssignJob leave all drones and orders unchanged.
C16_ReserveRefused ==
  [][\A s \in Slots :
       (req'[s].op = "ReserveOrder" /\ req'[s].d # NULL /\ req'[s] # req[s])
         => LET d == req'[s].d
            IN /\ (/\ req[s].pc = "idle"
                   /\ \/ drones[d].status = DroneStatusBroken
                      \/ drones[d].assignedJob # NULL)
                    => req'[s].pc = "done" /\ req'[s].res = "FailedPrecondition"
               /\ (req[s].pc = "rsv_find" /\ C6_Candidates(d) = {})
                    => req'[s].pc = "done" /\ req'[s].res = "FailedPrecondition"
               /\ (req[s].pc \in {"idle", "rsv_find"}
                   \/ req'[s].res = "FailedPrecondition")
                    => drones' = drones /\ orders' = orders]_vars

\* a broken drone was refused although an order was there for it to reserve
C16_Witness ==
  \E s \in Slots :
    /\ req[s].pc = "done" /\ req[s].op = "ReserveOrder"
    /\ req[s].res = "FailedPrecondition"
    /\ drones[req[s].d].status = DroneStatusBroken
    /\ drones[req[s].d].assignedJob = NULL
    /\ C6_Candidates(req[s].d) # {}

\* C17: the steps of a ReserveOrder change nothing but the assignedJob of
\* the calling drone and the dronePath of the order it reserves: that
\* order's status, coordinates and pickup, every other order and every other
\* drone stay as they are; at its OK return the drone is in that path.
C17_ReserveFrame ==
  [][\A s \in Slots :
       (req'[s].op = "ReserveOrder" /\ req'[s].d # NULL /\ req'[s] # req[s])
         => LET d == req'[s].d
            IN /\ \A d2 \in DroneIds \ {d} : drones'[d2] = drones[d2]
               /\ drones'[d].status = drones[d].status
               /\ drones'[d].loc = drones[d].loc
               /\ Len(orders') = Len(orders)
               /\ \A o \in OrderIds :
                    IF o = req[s].ord
                    THEN orders'[o] =
                           [orders[o] EXCEPT !.dronePath = orders'[o].dronePath]
                    ELSE orders'[o] = orders[o]
               /\ (req'[s].pc = "done" /\ req'[s].res = "OK")
                    => IsDroneInPath(orders', req[s].ord, d)]_vars

\* a second drone has reserved a handed-off order: the order is still to
\* pick up at its recorded pickup location
C17_Witness ==
  \E s \in Slots, o \in OrderIds :
    /\ req[s].pc = "done" /\ req[s].op = "ReserveOrder" /\ req[s].res = "OK"
    /\ drones[req[s].d].assignedJob = o
    /\ orders[o].status = OrderStatusToPickUp
    /\ orders[o].pickup # NoLoc
    /\ Len(PathIds(orders, o)) = 2

---------------------------------------------------------------------------
(* C18.  The pickup location.                                              *)

\* slot s completes a handoff in this step: MarkBroken records the order as
\* affected
C18_HandsOff(s, o) ==
  /\ req[s].op = "MarkBroken" /\ req[s].ord = o
  /\ ~req[s].flag /\ req'[s].flag

---------------------------------------------------------------------------
(* C19.  Reserving and grabbing a handed-off order.                        *)

\* the handed-off orders drone d may reserve
C19_HandedOff(d) ==
  {o \in C6_Candidates(d) : orders[o].status = OrderStatusToPickUp}

\* C19: when a fixed, unassigned drone calls ReserveOrder while a handed-off
\* (to pick up) order without the drone in its path is unassigned, the query
\* gives it such an order, the oldest of them, ahead of every placed order,
\* and the call returns OK with the drone holding it; and a GrabOrder by a
\* drone that holds a to pick up order and is at its recorded pickup
\* location returns OK and sets the order to en route.
C19_HandoffReserveGrab ==
  [][\A s \in Slots :
       /\ (req[s].pc = "rsv_find" /\ req'[s] # req[s]
           /\ C19_HandedOff(req[s].d) # {})
            => /\ req'[s].ord \in C19_HandedOff(req[s].d)
               /\ \A o \in C19_HandedOff(req[s].d) :
                    \/ orders[o].placementAt > orders[req'[s].ord].placementAt
                    \/ /\ orders[o].placementAt = orders[req'[s].ord].placementAt
                       /\ o >= req'[s].ord
       /\ (req[s].op = "ReserveOrder" /\ req[s].ord # NULL /\ req'[s].pc = "done")
            => /\ req'[s].res = "OK"
               /\ drones'[req[s].d].assignedJob = req[s].ord
       /\ (/\ req'[s].op = "GrabOrder" /\ req'[s].pc = "done" /\ req[s].pc # "done"
           /\ req'[s].d # NULL
           /\ drones[req'[s].d].assignedJob # NULL
           /\ LET o == orders[drones[req'[s].d].assignedJob]
              IN /\ o.status = OrderStatusToPickUp
                 /\ o.pickup # NoLoc
                 /\ o.pickup = drones[req'[s].d].loc)
            => /\ req'[s].res = "OK"
               /\ orders'[drones[req'[s].d].assignedJob].status = OrderStatusEnRoute]_vars

\* drone 12, away from the origin, has reserved and grabbed the handed-off
\* order 2 at its pickup location although the older order 1 is placed and
\* free
C19_Witness ==
  \E s \in Slots :
    /\ req[s].pc = "done" /\ req[s].op = "GrabOrder" /\ req[s].res = "OK"
    /\ req[s].d = 12
    /\ Len(orders) = 2
    /\ drones[12].assignedJob = 2
    /\ orders[2].status = OrderStatusEnRoute
    /\ orders[2].pickup = drones[12].loc
    /\ orders[2].pickup # orders[2].origin
    /\ PathIds(orders, 2) = <<FormatInt(1), FormatInt(12)>>
    /\ orders[1].status = OrderStatusPlaced
    /\ orders[1].dronePath = <<>>
    /\ orders[1].placementAt < orders[2].placementAt
    /\ \A d \in DroneIds : drones[d].assignedJob # 1

---------------------------------------------------------------------------
(* C20.  WithdrawOrder and the listing.                                    *)

\* C20: a WithdrawOrder for an existing order by a user who is not its
\* submitter returns PermissionDenied and changes no order; by the submitter
\* it goes on to the write, and at its OK return the order is withdrawn and
\* nothing else has changed; a ListOrders of a user (default page size)
\* returns every order the user submitted, the withdrawn ones with status
\* withdrawn.
C20_WithdrawAndList ==
  [][\A s \in Slots, u \in UserIds :
       /\ \A id \in OrderIds :
            StartWithdraw(s, u, id)
              => IF orders[id].submittedBy # u
                 THEN /\ req'[s].pc = "done"
                      /\ req'[s].res = "PermissionDenied"
                      /\ orders' = orders
                 ELSE req'[s].pc # "done" /\ orders' = orders
       /\ (req[s].op = "WithdrawOrder" /\ req[s].pc # "done" /\ req'[s].pc = "done")
            => /\ req'[s].res = "OK"
               /\ orders' = [orders EXCEPT ![req[s].ord].status = OrderStatusWithdrawn]
       /\ ListOrders(s, u, 0, <<>>)
            => \A o \in OrderIds :
                 orders[o].submittedBy = u
                   => \E i \in 1..Len(req'[s].page) :
                        req'[s].page[i] = [id |-> o, status |-> orders[o].status]]_vars

\* a listing has returned two orders of the user, a withdrawn one among them
C20_Witness ==
  \E s \in Slots :
    /\ req[s].pc = "done" /\ req[s].op = "ListOrders"
    /\ Len(req[s].page) = 2
    /\ \E i \in 1..2 :
         /\ req[s].page[i].status = OrderStatusWithdrawn
         /\ orders[req[s].page[i].id].status = OrderStatusWithdrawn

---------------------------------------------------------------------------
(* C21.  Only the admin puts a broken drone back in service.               *)

\* C21: the drones of the seeded fleet start fixed, and a step that takes a
\* drone from broken to fixed is the admin's UpdateDroneStatus(fixed) for
\* that drone: no step of a drone handler or of a user handler does it.
C21_BrokenUntilAdminFixes ==
  /\ (calls = 0 => \A d \in DroneIds : drones[d].status = DroneStatusFixed)
  /\ [][\A d \in DroneIds :
          (drones[d].status = DroneStatusBroken /\ drones'[d].status = DroneStatusFixed)
            => UpdateDroneStatus(d, DroneStatusFixed)]_vars

\* a drone whose MarkBroken has returned OK is fixed again
C21_Witness ==
  \E s \in Slots :
    /\ req[s].pc = "done" /\ req[s].op = "MarkBroken" /\ req[s].res = "OK"
    /\ drones[req[s].d].status = DroneStatusFixed

---------------------------------------------------------------------------
(* C22.  Admin spoof defense.                                              *)

\* the caller claims kind admin and the users row of that name holds a role
\* that reads admin once lowercased and trimmed
C22_IsAdmin(p) ==
  /\ p.kind = "admin"
  /\ \E u \in UserIds :
       /\ UserName[u] = p.name
       /\ users[u].role \in {<<"a", "d", "m", "i", "n">>, <<" ", "A", "d", "m", "i", "n">>}

\* the call of slot s was turned away: PermissionDenied, nothing written
C22_Denied(s) ==
  /\ req'[s].pc = "done" /\ req'[s].res = "PermissionDenied"
  /\ drones' = drones /\ orders' = orders /\ users' = users

\* C22: an admin RPC (GetOrders, GetDrones, UpdateOrderLocation,
\* UpdateDroneStatus) called with a principal is answered PermissionDenied
\* and writes nothing unless the principal's kind is admin and the persisted
\* role of the user of that name is admin (lowercased, trimmed); when both
\* hold the two listings answer OK and the two updates of an existing row
\* answer OK and write the row.
C22_AdminSpoofDefense ==
  [][\A s \in Slots : \A p \in Principals \ {NoPrincipal} :
       /\ (req'[s].op = "GetOrders" /\ RpcGetOrders(s, p))
            => IF C22_IsAdmin(p) THEN req'[s].res = "OK" ELSE C22_Denied(s)
       /\ (req'[s].op = "GetDrones" /\ RpcGetDrones(s, p))
            => IF C22_IsAdmin(p) THEN req'[s].res = "OK" ELSE C22_Denied(s)
       /\ req'[s].op = "UpdateOrderLocation"
            => \A id \in OrderIds, rt \in AdminRoutes :
                 RpcUpdateOrderLocation(s, p, id, rt[1], rt[2])
                   => IF C22_IsAdmin(p)
                      THEN /\ req'[s].res = "OK"
                           /\ orders'[id].origin = rt[1] /\ orders'[id].dest = rt[2]
                      ELSE C22_Denied(s)
       /\ req'[s].op = "UpdateDroneStatus"
            => \A d \in DroneIds, st \in {DroneStatusFixed, DroneStatusBroken} :
                 RpcUpdateDroneStatus(s, p, d, st)
                   => IF C22_IsAdmin(p)
                      THEN req'[s].res = "OK" /\ drones'[d].status = st
                      ELSE C22_Denied(s)]_vars

\* alice, seeded as an end user, has called GetDrones as admin and got OK:
\* her role had been set to " Admin" before
C22_Witness ==
  \E s \in Slots :
    /\ req[s].pc = "done" /\ req[s].op = "GetDrones" /\ req[s].who = "alice"
    /\ req[s].res = "OK"
    /\ users[1].role = <<" ", "A", "d", "m", "i", "n">>

---------------------------------------------------------------------------
(* C23.  Gating by the kind of the principal.                              *)

\* the call of slot s was answered code and nothing was written
C23_Refused(s, code) ==
  /\ req'[s].pc = "done" /\ req'[s].res = code
  /\ drones' = drones /\ orders' = orders /\ users' = users

\* a call of the drone service
C23_DroneRpc(s, p) ==
  \/ RpcReserveOrder(s, p)
  \/ RpcGrabOrder(s, p)
  \/ \E delivered \in BOOLEAN : RpcCompleteOrder(s, p, delivered)
  \/ RpcMarkBroken(s, p)
  \/ \E loc \in Locs \cup {NoLoc} : RpcHeartbeat(s, p, loc)
  \/ RpcGetAssignedOrder(s, p)

\* a call of the user order service
C23_UserRpc(s, p) ==
  \/ \E rt \in Routes : RpcSetOrder(s, p, rt[1], rt[2])
  \/ \E id \in 0..MaxOrders : RpcWithdrawOrder(s, p, id)
  \/ RpcListOrders(s, p, 0, <<>>)

\* C23: a drone RPC called by a principal of another kind, and a user order
\* RPC called by a drone principal, are answered PermissionDenied; any RPC
\* called without a principal is answered Unauthenticated; none of these
\* calls writes anything.
C23_KindGating ==
  [][\A s \in Slots : (req[s].pc = "idle" /\ req'[s].pc # "idle") =>
       \A p \in Principals :
         /\ (p = NoPrincipal /\ RpcCall(s, p)) => C23_Refused(s, "Unauthenticated")
         /\ (p # NoPrincipal /\ p.kind # "drone" /\ C23_DroneRpc(s, p))
              => C23_Refused(s, "PermissionDenied")
         /\ (p.kind = "drone" /\ C23_UserRpc(s, p))
              => C23_Refused(s, "PermissionDenied")]_vars

---------------------------------------------------------------------------
(* C24.  Heartbeat writes the position of the calling drone only.          *)

\* C24: a Heartbeat of a known drone with a location is answered OK whatever
\* the drone's status, and after it the drone is at that location, every
\* drone has the status and the job it had, every other drone is where it
\* was, and orders and users are unchanged; a Heartbeat without location is
\* answered InvalidArgument and writes nothing.
C24_HeartbeatFrame ==
  [][\A s \in Slots : req'[s].op = "Heartbeat" =>
       \A p \in Principals : (p.kind = "drone" /\ resolveDrone(p.name) # NULL) =>
         /\ \A loc \in Locs :
              RpcHeartbeat(s, p, loc)
                => /\ req'[s].pc = "done" /\ req'[s].res = "OK"
                   /\ drones'[resolveDrone(p.name)].loc = loc
                   /\ \A d \in DroneIds :
                        /\ drones'[d].status = drones[d].status
                        /\ drones'[d].assignedJob = drones[d].assignedJob
                        /\ d # resolveDrone(p.name) => drones'[d].loc = drones[d].loc
                   /\ orders' = orders /\ users' = users
         /\ RpcHeartbeat(s, p, NoLoc)
              => /\ req'[s].pc = "done" /\ req'[s].res = "InvalidArgument"
                 /\ drones' = drones /\ orders' = orders /\ users' = users]_vars

\* a broken drone that still holds an order has sent its position
C24_Witness ==
  \E s \in Slots :
    /\ req[s].pc = "done" /\ req[s].op = "Heartbeat" /\ req[s].res = "OK"
    /\ drones[req[s].d].status = DroneStatusBroken
    /\ drones[req[s].d].assignedJob # NULL
    /\ drones[req[s].d].loc = 300

---------------------------------------------------------------------------
(* C25.  Following the page tokens lists every order once, newest first.   *)

\* the pages a client gets that calls ListOrders for user u with page size
\* size and token tok and then follows NextPageToken, at most fuel times
RECURSIVE C25_Follow(_, _, _, _)
C25_Follow(u, size, tok, fuel) ==
  LET rsp == ListOrdersResponse(orders, u, size, tok)
  IN IF fuel = 0 \/ rsp.next = <<>> THEN rsp.page
     ELSE rsp.page \o C25_Follow(u, size, rsp.next, fuel - 1)

\* C25: for every user and every page size, the pages got by following the
\* tokens from the first page hold every order of the user exactly once and
\* no other order, each entry older (placementAt, then id) than the one
\* before it.
C25_PaginationComplete ==
  \A u \in UserIds, size \in PageSizes :
    LET got == C25_Follow(u, size, <<>>, Len(orders) + 1)
    IN /\ \A o \in OrderIds :
            orders[o].submittedBy = u
              <=> Cardinality({i \in 1..Len(got) : got[i].id = o}) = 1
       /\ \A i \in 1..Len(got) : orders[got[i].id].submittedBy = u
       /\ \A i \in 1..(Len(got) - 1) :
            \/ orders[got[i + 1].id].placementAt < orders[got[i].id].placementAt
            \/ /\ orders[got[i + 1].id].placementAt = orders[got[i].id].placementAt
               /\ got[i + 1].id < got[i].id

\* a client holds a page that is not the first: a full page of one order,
\* with a token on it, while its user has a newer order placed in the same
\* second and another user's order lies between the two
C25_Witness ==
  \E s \in Slots :
    /\ req[s].pc = "done" /\ req[s].op = "ListOrders" /\ req[s].res = "OK"
    /\ Len(req[s].page) = 1 /\ req[s].next # <<>>
    /\ LET o == req[s].page[1].id
       IN \E n \in OrderIds, m \in OrderIds :
            /\ o < m /\ m < n
            /\ orders[n].submittedBy = orders[o].submittedBy
            /\ orders[n].placementAt = orders[o].placementAt
            /\ orders[m].submittedBy # orders[o].submittedBy


---------------------------------------------------------------------------
(* C26.  The cursor round trip and the refusal of malformed page tokens.   *)

\* token tok is not URL-safe base64 without padding: a character outside
\* the alphabet, or a length no encoding has
C26_NotBase64URL(tok) ==
  (\E i \in 1..Len(tok) : URLValue(tok[i]) = -1) \/ Len(tok) % 4 = 1

\* text b is two decimal integers with one "|" between them
C26_TwoIntegers(b) ==
  \E cut \in 1..Len(b) :
    /\ {i \in 1..Len(b) : b[i] = SepByte} = {cut}
    /\ ~ParseInt(SubSeq(b, 1, cut - 1)).err
    /\ ~ParseInt(SubSeq(b, cut + 1, Len(b))).err

C26_Malformed(tok) ==
  C26_NotBase64URL(tok) \/ ~C26_TwoIntegers(DecodeQuanta(tok))

\* decoding an encoded cursor gives the seconds and the id back
C26_RoundTrip ==
  \A sec \in 0..MaxCursor, id \in 1..MaxCursor :
    decodeCursor(encodeCursor(sec, id)) = [err |-> FALSE, seconds |-> sec, id |-> id]

\* the tokens of the clients that satisfy mal are refused: decodeCursor
\* fails on them and ListOrders called with one answers InvalidArgument
C26_Refuses(mal(_)) ==
  \A tok \in MadeUpTokens \cup {req[t].next : t \in Slots} :
    (tok # <<>> /\ mal(tok)) =>
      /\ decodeCursor(tok).err
      /\ \A s \in Slots, u \in UserIds, pageSize \in PageSizes :
           (req'[s].op = "ListOrders" /\ ListOrders(s, u, pageSize, tok))
             => req'[s].res = "InvalidArgument"

\* C26: decodeCursor(encodeCursor(s, i)) is (s, i) without error for every
\* nonnegative s and positive i; and for a page token that is not URL-safe
\* base64, or whose decoded text is not two "|"-separated decimal integers,
\* decodeCursor returns an error and ListOrders answers InvalidArgument.
C26_CursorRoundTrip ==
  C26_RoundTrip /\ [][C26_Refuses(C26_Malformed)]_vars


---------------------------------------------------------------------------
(* C27.  SetOrder creates one placed order of the calling user.            *)

\* C27: a SetOrder call by an end-user or admin principal whose name is that
\* of a persisted user adds exactly one order, with status placed,
\* submittedBy the id of that user, an empty dronePath, no pickup location
\* and no assigned drone, and leaves every existing order and every drone as
\* they were; when no user has that name the call answers NotFound and the
\* orders stay as they were.
C27_SetOrderCreates ==
  [][\A s \in Slots, p \in Principals, rt \in Routes :
       (/\ req'[s].op = "SetOrder"
        /\ RequireEndUserOrAdmin(p) = "OK"
        /\ RpcSetOrder(s, p, rt[1], rt[2]))
         => IF \E u \in UserIds : UserName[u] = p.name
            THEN LET u == CHOOSE v \in UserIds : UserName[v] = p.name
                     new == Len(orders) + 1
                 IN /\ req'[s].res = "OK"
                    /\ Len(orders') = new
                    /\ SubSeq(orders', 1, Len(orders)) = orders
                    /\ orders'[new].status = OrderStatusPlaced
                    /\ orders'[new].submittedBy = u
                    /\ orders'[new].dronePath = <<>>
                    /\ orders'[new].pickup = NoLoc
                    /\ orders'[new].origin = rt[1]
                    /\ orders'[new].dest = rt[2]
                    /\ \A d \in DroneIds : drones'[d].assignedJob # new
                    /\ drones' = drones
            ELSE /\ req'[s].res = "NotFound"
                 /\ orders' = orders
                 /\ drones' = drones]_vars

\* the admin root has placed the second order of the table, and it is theirs
C27_Witness ==
  \E s \in Slots :
    /\ req[s].pc = "done" /\ req[s].op = "SetOrder" /\ req[s].res = "OK"
    /\ req[s].who = "root"
    /\ Len(orders) = 2
    /\ orders[2].submittedBy = 2 /\ orders[2].status = OrderStatusPlaced
    /\ orders[1].submittedBy = 1


---------------------------------------------------------------------------
(* C28.  The geofence target of GrabOrder.                                 *)

\* the target as the claim states it
C28_Target(o) ==
  IF o.status = OrderStatusPlaced THEN o.origin
  ELSE IF o.status = OrderStatusToPickUp /\ o.pickup # NoLoc THEN o.pickup
  ELSE o.origin

\* C28: GrabOrder, having read a placed or to pick up order, goes on to the
\* status write exactly when the drone is within 100 ft of the target: the
\* origin of a placed order, the recorded pickup location of a to pick up
\* order that has one, the origin otherwise; it answers FailedPrecondition
\* if not.  So a drone within 100 ft of the origin but not of the pickup
\* location does not grab a handed-off order, and a drone within 100 ft of
\* the pickup location does.
C28_GrabTarget ==
  [][\A s \in Slots :
       (/\ req[s].pc = "grab_get" /\ req'[s] # req[s]
        /\ OrderExists(orders, req[s].ord)
        /\ orders[req[s].ord].status \in {OrderStatusPlaced, OrderStatusToPickUp})
         => LET o == orders[req[s].ord]
                at == req[s].loc
                handedOff == o.status = OrderStatusToPickUp /\ o.pickup # NoLoc
            IN /\ req'[s].pc = "grab_set" <=> C14_Within100(at, C28_Target(o))
               /\ req'[s].pc # "grab_set"
                    => req'[s].pc = "done" /\ req'[s].res = "FailedPrecondition"
               /\ (handedOff /\ C14_Within100(at, o.origin)
                     /\ ~C14_Within100(at, o.pickup))
                    => req'[s].res = "FailedPrecondition"
               /\ (handedOff /\ C14_Within100(at, o.pickup))
                    => req'[s].pc = "grab_set"]_vars

\* drone 1 sits at the origin of the handed-off order it holds, whose pickup
\* location is elsewhere, and its GrabOrder has been refused
C28_Witness ==
  \E s \in Slots, o \in OrderIds :
    /\ req[s].pc = "done" /\ req[s].op = "GrabOrder"
    /\ req[s].res = "FailedPrecondition" /\ req[s].d = 1
    /\ drones[1].assignedJob = o
    /\ orders[o].status = OrderStatusToPickUp
    /\ orders[o].pickup # NoLoc
    /\ drones[1].loc = orders[o].origin
    /\ ~C14_Within100(drones[1].loc, orders[o].pickup)


---------------------------------------------------------------------------
(* C29, C30.  Orders in flight and finished orders against the drones.     *)

\* the drones that hold order o
C29_Holders(o) == {d \in DroneIds : drones[d].assignedJob = o}

\* C29: in every reachable state, under any interleaving of the handlers'
\* store calls (GrabOrder and MarkBroken of one drone running at the same
\* time included), every order with status en route is the assignedJob of
\* exactly one drone.
C29_EnRouteHeld ==
  \A o \in OrderIds :
    orders[o].status = OrderStatusEnRoute => Cardinality(C29_Holders(o)) = 1

\* C30: in every reachable state no drone holds as assignedJob an order
\* whose status is delivered, failed or withdrawn.
C30_NoTerminalHeld ==
  \A d \in DroneIds :
    (drones[d].assignedJob # NULL /\ OrderExists(orders, drones[d].assignedJob))
      => orders[drones[d].assignedJob].status \notin TerminalStatuses


---------------------------------------------------------------------------
(* C31, C32.  ReserveOrder's write of the assignment among other handlers. *)

\* C31: under any interleaving of the handlers' store calls, when the
\* AssignJob write of a ReserveOrder takes effect the selected order still
\* has status placed or to pick up and the calling drone still has status
\* fixed.
C31_AssignStillValid ==
  [][\A s \in Slots :
       (/\ req[s].pc = "rsv_assign" /\ req'[s].pc = "rsv_append"
        /\ drones'[req[s].d].assignedJob = req[s].ord)
         => /\ orders[req[s].ord].status \in {OrderStatusPlaced, OrderStatusToPickUp}
            /\ drones[req[s].d].status = DroneStatusFixed]_vars


\* C32: the AssignJob write of a ReserveOrder never replaces an assignment
\* the calling drone already has: of two ReserveOrder calls of one drone in
\* flight together at most one writes assignedJob.
C32_NoOverwrite ==
  [][\A s \in Slots :
       (/\ req[s].pc = "rsv_assign" /\ req'[s].pc = "rsv_append"
        /\ drones'[req[s].d].assignedJob = req[s].ord)
         => drones[req[s].d].assignedJob = NULL]_vars


---------------------------------------------------------------------------
(* C33.  ReserveOrder is all-or-nothing.                                   *)

\* C33: a ReserveOrder that returns an error, a failure of AppendDronePath
\* after the AssignJob write included, leaves the calling drone's
\* assignedJob and every order's dronePath as they were before the call (the
\* handlers run one at a time; the drone was unassigned when the call passed
\* its checks).
C33_ReserveAllOrNothing ==
  [][\A s \in Slots :
       (/\ req[s].pc \in {"rsv_find", "rsv_assign", "rsv_append"}
        /\ req'[s].pc = "done" /\ req'[s].res # "OK")
         => /\ drones'[req[s].d].assignedJob = NULL
            /\ \A o \in OrderIds : orders'[o].dronePath = orders[o].dronePath
            /\ {o \in OrderIds : IsDroneInPath(orders', o, req[s].d)} = req[s].prior]_vars


---------------------------------------------------------------------------
(* C34.  Every order a working drone may take is delivered or failed.      *)

\* the fixed drones
C34_Fixed == {d \in DroneIds : drones[d].status = DroneStatusFixed}

\* order o waits and some fixed drone is not in its path
C34_Waiting(o) ==
  /\ o \in OrderIds
  /\ orders[o].status \in {OrderStatusPlaced, OrderStatusToPickUp}
  /\ \E d \in C34_Fixed : ~IsDroneInPath(orders, o, d)

C34_Finished(o) ==
  o \in OrderIds /\ orders[o].status \in {OrderStatusDelivered, OrderStatusFailed}

C34_AllDelivered ==
  \A o \in 1..2 : C34_Waiting(o) ~> C34_Finished(o)

\* every fixed drone goes on with its calls
C34_EveryDroneWorks == \A d \in DroneIds : WF_vars(LiveCall(d))

\* one fixed drone goes on with its calls
C34_OneDroneWorks ==
  \E d \in DroneIds : drones[d].status = DroneStatusFixed /\ WF_vars(LiveCall(d))

---------------------------------------------------------------------------
(* C35.  The next page token and the end of the listing.                   *)

\* the page size ListOrders works with: 20 when none is asked for, 100 at
\* most
C35_PageSize(pageSize) ==
  IF pageSize <= 0 THEN 20 ELSE IF pageSize > 100 THEN 100 ELSE pageSize

\* following the tokens from tok reaches a response without token in at most
\* fuel further requests
RECURSIVE C35_Ends(_, _, _, _)
C35_Ends(u, size, tok, fuel) ==
  LET rsp == ListOrdersResponse(orders, u, size, tok)
  IN IF rsp.next = <<>> THEN TRUE
     ELSE IF fuel = 0 THEN FALSE
     ELSE C35_Ends(u, size, rsp.next, fuel - 1)

\* C35: ListOrders gives a non-empty nextPageToken only with a page of
\* exactly pageSize orders (20 when no size is asked for, 100 at most), and
\* following the tokens from the first page over the orders as they are
\* (the table does not change while the clients list) ends: a response with
\* an empty nextPageToken comes after at most as many further requests as
\* there are orders.
C35_TokenOnlyWhenFull ==
  /\ \A u \in UserIds, size \in PageSizes :
       C35_Ends(u, size, <<>>, Len(orders))
  /\ [][\A s \in Slots, u \in UserIds, pageSize \in PageSizes :
          \A tok \in {<<>>} \cup {req[t].next : t \in Slots} :
            (/\ req'[s].op = "ListOrders" /\ req'[s].next # <<>>
             /\ ListOrders(s, u, pageSize, tok))
              => Len(req'[s].page) = C35_PageSize(pageSize)]_vars

\* a client holds a full page of two orders with a token and the page after
\* it: one order, no token
C35_Witness ==
  \E s \in Slots, t \in Slots :
    /\ req[s].pc = "done" /\ req[s].op = "ListOrders" /\ req[s].res = "OK"
    /\ Len(req[s].page) = 2 /\ req[s].next # <<>>
    /\ req[t].pc = "done" /\ req[t].op = "ListOrders" /\ req[t].res = "OK"
    /\ Len(req[t].page) = 1 /\ req[t].next = <<>>
    /\ req[t].page[1].id < req[s].page[2].id
    /\ orders[req[t].page[1].id].submittedBy = orders[req[s].page[2].id].submittedBy


---------------------------------------------------------------------------
(* C36: every drone operation resolves its caller by serial number first  *)
(* and by name only when no drone has that serial.  When one drone has    *)
(* the principal's name as serial number and another one as name, the     *)
(* operation acts on the drone matched by serial; when neither lookup     *)
(* matches, the operation returns NotFound and changes nothing.           *)

\* the drone the caller named n stands for: the row with that serial number,
\* else the row with that name, else none
C36_Match(n) ==
  IF \E d \in DroneIds : DroneSerial[d] = n
    THEN CHOOSE d \in DroneIds : DroneSerial[d] = n
  ELSE IF \E d \in DroneIds : DroneName[d] = n
    THEN CHOOSE d \in DroneIds : DroneName[d] = n
  ELSE NULL

\* the drone operations that keep the resolved drone in their slot
C36_KeepsDrone ==
  {"ReserveOrder", "GrabOrder", "CompleteOrder", "MarkBroken", "Heartbeat"}

\* a call of a drone operation by p, with a heartbeat location among locs,
\* acts on C36_Match(p.name), or returns NotFound and changes nothing
C36_CallResolves(s, p, locs) ==
  (/\ req[s].pc = "idle"
   /\ req'[s].pc # "idle"
   /\ \/ RpcReserveOrder(s, p)
      \/ RpcGrabOrder(s, p)
      \/ \E delivered \in BOOLEAN : RpcCompleteOrder(s, p, delivered)
      \/ RpcMarkBroken(s, p)
      \/ \E loc \in locs : RpcHeartbeat(s, p, loc)
      \/ RpcGetAssignedOrder(s, p))
  => IF C36_Match(p.name) = NULL
       THEN /\ req'[s].res = "NotFound"
            /\ drones' = drones
            /\ orders' = orders
       ELSE /\ req'[s].res # "NotFound"
            /\ req'[s].op \in C36_KeepsDrone /\ req'[s].d # NULL
                 => req'[s].d = C36_Match(p.name)
            /\ \A d \in DroneIds \ {C36_Match(p.name)} : drones'[d] = drones[d]

\* the store calls of a handler in flight write the row of its drone only
C36_StepOnResolved(s) ==
  (req[s].pc \notin {"idle", "done"} /\ DroneStep(s))
  => \A d \in DroneIds \ {req[s].d} : drones'[d] = drones[d]

C36_Resolves(locs) ==
  \A s \in Slots :
    /\ C36_StepOnResolved(s)
    /\ \A p \in DroneCallers : C36_CallResolves(s, p, locs)

C36_SerialFirst == [][C36_Resolves(Locs \cup {NoLoc})]_vars

\* the same for requests that carry what the operation requires
C36_SerialFirstWellFormed == [][C36_Resolves(Locs)]_vars

\* a heartbeat of the caller named like the serial number of drone 12 and
\* like drone 1 has moved drone 12 and left drone 1 where it was
C36_Witness ==
  \E s \in Slots :
    /\ req[s].pc = "done" /\ req[s].op = "Heartbeat" /\ req[s].res = "OK"
    /\ req[s].who = "SER-B" /\ req[s].d = 12
    /\ GetByName("SER-B") = 1
    /\ drones[12].loc = 300 /\ drones[1].loc = 0


---------------------------------------------------------------------------
(* C37: UpdateOrderLocation by an admin on an existing order changes      *)
(* only the origin and the destination of that order: its status, pickup  *)
(* location and dronePath, every other order and every drone stay as      *)
(* they are, also when the order is en route.  For an order id that       *)
(* matches no row it returns NotFound and changes nothing.                *)

C37_Root == [name |-> "root", kind |-> "admin"]

C37_OnlyCoordinates(s, id, origin, dest) ==
  (/\ req'[s].op = "UpdateOrderLocation"
   /\ RpcUpdateOrderLocation(s, C37_Root, id, origin, dest))
  => IF OrderExists(orders, id)
       THEN /\ req'[s].res = "OK"
            /\ orders' = [orders EXCEPT ![id].origin = origin, ![id].dest = dest]
            /\ drones' = drones
       ELSE /\ req'[s].res = "NotFound"
            /\ orders' = orders
            /\ drones' = drones

C37_UpdateOrderLocationFrame ==
  [][\A s \in Slots, id \in 1..MaxOrders, rt \in AdminRoutes :
       C37_OnlyCoordinates(s, id, rt[1], rt[2])]_vars

\* an order on its way to 300 has been redirected to 0; it is still en
\* route on the drone that carries it
C37_Witness ==
  \E s \in Slots, d \in DroneIds :
    /\ req[s].pc = "done" /\ req[s].op = "UpdateOrderLocation"
    /\ req[s].res = "OK"
    /\ orders[1].status = OrderStatusEnRoute
    /\ orders[1].origin = 300 /\ orders[1].dest = 0
    /\ drones[d].assignedJob = 1

---------------------------------------------------------------------------
(* C38: UpdateDroneStatus by an admin returns InvalidArgument and changes *)
(* nothing when the status asked for is neither fixed nor broken, returns *)
(* NotFound when no drone has the id given, and otherwise sets the status *)
(* of exactly that drone: its assignedJob and location, every other drone *)
(* and every order stay as they are.                                      *)

C38_SetsStatus(s, d, st) ==
  (/\ req'[s].op = "UpdateDroneStatus"
   /\ RpcUpdateDroneStatus(s, C37_Root, d, st))
  => IF st \notin {DroneStatusFixed, DroneStatusBroken}
       THEN /\ req'[s].res = "InvalidArgument"
            /\ drones' = drones /\ orders' = orders
     ELSE IF d \notin DroneIds
       THEN /\ req'[s].res = "NotFound"
            /\ drones' = drones /\ orders' = orders
     ELSE /\ req'[s].res = "OK"
          /\ drones' = [drones EXCEPT ![d].status = st]
          /\ orders' = orders

C38_UpdateDroneStatus ==
  [][\A s \in Slots, d \in DroneIds \cup {7},
        st \in {"", DroneStatusFixed, DroneStatusBroken} :
       C38_SetsStatus(s, d, st)]_vars

\* a drone that holds an order has been set broken: it still holds it
C38_Witness ==
  \E s \in Slots :
    /\ req[s].pc = "done" /\ req[s].op = "UpdateDroneStatus"
    /\ req[s].res = "OK" /\ req[s].d \in DroneIds
    /\ drones[req[s].d].status = DroneStatusBroken
    /\ drones[req[s].d].assignedJob = 1
    /\ orders[1].status = OrderStatusEnRoute


---------------------------------------------------------------------------
(* C39: GetAssignedOrder changes no state and returns FailedPrecondition  *)
(* when the drone has no assignedJob.  Its ETA is 0 whenever the drone's  *)
(* speed is not positive or the order is delivered, failed or withdrawn;  *)
(* for a placed or to-pick-up order it is the time from the drone to the  *)
(* start plus the time from the start to the destination, the start       *)
(* being the pickup point of a to-pick-up order that has one and the      *)
(* origin otherwise; for an en-route order it is the time from the drone  *)
(* to the destination only.                                               *)

\* the time of one leg, in the unit of FlightTime
C39_Leg(a, b, speed) == (HaversineFeet(a, b) * 3600) \div speed

C39_Start(o) ==
  IF o.status = OrderStatusToPickUp /\ o.pickup # NoLoc THEN o.pickup
  ELSE o.origin

C39_ETA(o, dr) ==
  IF dr.speed <= 0 \/ o.status \in TerminalStatuses THEN 0
  ELSE IF o.status = OrderStatusEnRoute THEN C39_Leg(dr.loc, o.dest, dr.speed)
  ELSE C39_Leg(dr.loc, C39_Start(o), dr.speed)
       + C39_Leg(C39_Start(o), o.dest, dr.speed)

C39_Answer(s, p) ==
  (/\ req'[s].op = "GetAssignedOrder"
   /\ RpcGetAssignedOrder(s, p))
  => LET d == resolveDrone(p.name)
     IN /\ drones' = drones /\ orders' = orders /\ users' = users
        /\ d # NULL /\ drones[d].assignedJob = NULL
             => req'[s].res = "FailedPrecondition"
        /\ d # NULL /\ drones[d].assignedJob \in OrderIds
             => /\ req'[s].res = "OK"
                /\ req'[s].eta = C39_ETA(orders[drones[d].assignedJob], drones[d])

C39_GetAssignedOrder ==
  [][\A s \in Slots, p \in DroneCallers : C39_Answer(s, p)]_vars

\* drone 1, at 300 with speed 2, has asked for its order, which waits at
\* 900 where another drone left it: 600 feet there and 600 feet to the
\* destination
C39_Witness ==
  \E s \in Slots :
    /\ req[s].pc = "done" /\ req[s].op = "GetAssignedOrder"
    /\ req[s].res = "OK" /\ req[s].who = "SER-A"
    /\ drones[1].assignedJob = 1 /\ drones[1].loc = 300 /\ drones[1].speed = 2
    /\ orders[1].status = OrderStatusToPickUp /\ orders[1].pickup = 900
    /\ req[s].eta = 1200 * 1800

====
